---------------------------- MODULE Spec2Model ----------------------------
(***************************************************************************)
(* A model of aicss: the HTML processor                                    *)
(* (src/src/aicss/ml/html_processor.py), the engine                        *)
(* (src/src/aicss/ml/engine.py) and the process and watch commands         *)
(* (src/src/aicss/cli.py).                                                 *)
(*                                                                         *)
(* A document is its serialised form: a sequence of tokens (start tag, end *)
(* tag, void tag, text node, comment).  BeautifulSoup's tree operations    *)
(* are operators over that sequence (an element is the span from its start *)
(* tag to the matching end tag), and the regular-expression passes of the  *)
(* code, which work on the serialised text, are operators over the same    *)
(* sequence.  A text node is a sequence of lexemes: plain words, the bare  *)
(* keyword "content ", directives (content "..", text "..", style "..",    *)
(* with style ".."), and markup that is literal text inside the node       *)
(* (written &lt;tag&gt;..&lt;/tag&gt; in the file).                        *)
(*                                                                         *)
(* Encoded markup inside encoded markup is encoded once more for each      *)
(* level, its quotes included, so that a parse reveals one level.          *)
(*                                                                         *)
(* What the documents of this model do not contain: attributes whose value *)
(* holds encoded entities, a `with` attribute, directives other than       *)
(* content/text/style, a comment inside a custom element or with encoded   *)
(* entities or custom tags in it, a directive whose quotes span an element *)
(* boundary, two elements with one id, and a class attribute that lists a  *)
(* name twice.  On such documents the entity-cleaning steps of the code    *)
(* are the identity and are not written out.                               *)
(*                                                                         *)
(* The parsers the code names (html.parser, html5lib, lxml) are installed, *)
(* so the regex fallback of process_ai_tags is not taken.  In the document *)
(* pipeline the resolver is its interface: for a description it returns    *)
(* css for the selector it was given, returns the empty string, or raises. *)
(*                                                                         *)
(* Six specifications, each over its own group of variables, the other     *)
(* groups staying as they are when nothing was called.                     *)
(*                                                                         *)
(* Spec runs the two entry points, process_html_file (with extract_only =  *)
(* False, and no output path) and process_ai_tags, over a document.        *)
(*                                                                         *)
(* SpecFn calls three functions on their own: extract_directives over the  *)
(* characters of a text key "v", _generate_semantic_class_name twice with  *)
(* arguments that differ in the id at most, and extract_style_descriptions *)
(* over a document, which there may have an id that starts with 'aicss-',  *)
(* and it runs the loop of process_html_file over ai_tag_pattern on a      *)
(* text.  In SpecFn entry is the name of the function, input the arguments *)
(* of its calls and ret the values returned so far.                        *)
(*                                                                         *)
(* SpecEngine runs threads that call load_models, initialize_engine and    *)
(* process_description on the module state of engine.py, one statement at  *)
(* a time.                                                                 *)
(*                                                                         *)
(* SpecOutput calls process_html_file on one input file several times,     *)
(* with an output path or without; the document it computes is named, not  *)
(* computed.                                                               *)
(*                                                                         *)
(* SpecWatch is the watch command: the file system reports modifications,  *)
(* and the thread of the observer gives them to FileChangeHandler one at a *)
(* time.                                                                   *)
(*                                                                         *)
(* SpecProcess is the process command on one input file, from the test of  *)
(* --force to the report.                                                  *)
(***************************************************************************)
EXTENDS Integers, Sequences, FiniteSets, TLC

VARIABLES entry,      \* "file": process_html_file was called; "tags": process_ai_tags
          pc,         \* position in the called function
          input,      \* the document the call was given
          html,       \* the document being rewritten (html_content / soup)
          raises,     \* the description on which the resolver raises (NoDesc: none)
          depth,      \* current_depth of process_html_recursively
          passes,     \* parse-and-rewrite passes of process_html_recursively so far
          rewrites,   \* elements replaced by the last pass
          styles,     \* the ordered dict styles: element id -> css
          css_classes,\* the ordered dict css_classes: element id -> class name
          elements_with_aicss, \* the list of (token index, id, class name)
          ret         \* "none" while running, "ok", or "error" (the except branch)
                      \* (SpecFn: the values the calls have returned)

\* engine.py: the module's globals and the threads that call into it
VARIABLES _models,              \* the dict _models: which keys it has
          _initialized,         \* the flag _initialized
          _initialization_lock, \* the thread that holds the lock (Free: none)
          _model_lock,          \* the thread that holds the lock (Free: none)
          downloaded,           \* models_are_downloaded(): the files are there
          call,                 \* what each thread called, with its argument
          where,                \* where each thread is in the code
          properties,           \* process_description's dict, per thread
          futures,              \* the futures as_completed has not given yet
          returned              \* what each thread's call returned

\* process_html_file called with an output path, once and again
VARIABLES file_path,            \* the path of the file
          output_path,          \* the output path (None: none was given)
          files,                \* the files that exist, and what they hold
          running,              \* where the call is ("idle": no call)
          processed_html,       \* the document of the running call
          results               \* what the calls so far returned

\* cli.py: the watch command, its FileChangeHandler and the observer
VARIABLES event_queue,          \* the events the observer has not dispatched
          emitted,              \* how many events the file system has given
          output_dir,           \* self.output_dir (NoPath: None)
          processing,           \* self.processing
          pending_files,        \* self.pending_files
          handler,              \* where the observer's thread is
          todo,                 \* list(self.pending_files), what is left of it
          delivered,            \* the events on_modified was called with
          processed_files       \* the files process_html_file was called on

\* cli.py: the process command
VARIABLES max_passes,           \* the option --max-passes
          force,                \* the option --force
          is_file,              \* final_output exists and is a file
          remaining_tags,       \* the '<ai...>' openings final_output holds
          success,              \* the variable success
          pass,                 \* the loop variable i: the number of the pass
          command,              \* where the command is
          calls,                \* what each extract_and_process returned
          reported              \* what the command told the user

html_processor == <<entry, pc, input, html, raises, depth, passes, rewrites,
                    styles, css_classes, elements_with_aicss, ret>>

engine == <<_models, _initialized, _initialization_lock, _model_lock,
            downloaded, call, where, properties, futures, returned>>

output == <<file_path, output_path, files, running, processed_html, results>>

watch == <<event_queue, emitted, output_dir, processing, pending_files,
           handler, todo, delivered, processed_files>>

process == <<max_passes, force, is_file, remaining_tags, success, pass,
             command, calls, reported>>

vars == <<html_processor, engine, output, watch, process>>

\* No thread has a lock
Free == "~free~"

\* engine.py as imported and not called
EngineNotCalled ==
    /\ _models = [embedder |-> FALSE, property_classifier |-> FALSE,
                  has_property_embeddings |-> FALSE,
                  property_embeddings |-> {}]
    /\ _initialized = FALSE
    /\ _initialization_lock = Free
    /\ _model_lock = Free
    /\ downloaded = FALSE
    /\ call = <<>>
    /\ where = <<>>
    /\ properties = <<>>
    /\ futures = <<>>
    /\ returned = <<>>

\* process_html_file not called with an output path
NoOutputPath ==
    /\ file_path = <<>>
    /\ output_path = <<>>
    /\ files = <<>>
    /\ running = "idle"
    /\ processed_html = <<>>
    /\ results = <<>>

\* The watch command not run
NotWatching ==
    /\ event_queue = <<>>
    /\ emitted = 0
    /\ output_dir = <<>>
    /\ processing = FALSE
    /\ pending_files = {}
    /\ handler = "idle"
    /\ todo = <<>>
    /\ delivered = {}
    /\ processed_files = {}

\* The process command not run
NotProcessing ==
    /\ max_passes = 0
    /\ force = FALSE
    /\ is_file = FALSE
    /\ remaining_tags = 0
    /\ success = FALSE
    /\ pass = 0
    /\ command = "none"
    /\ calls = <<>>
    /\ reported = "none"

\* html_processor.py not called
ProcessorNotCalled ==
    /\ entry = "none"
    /\ pc = "none"
    /\ input = <<>>
    /\ html = <<>>
    /\ raises = "~none~"
    /\ depth = 0
    /\ passes = 0
    /\ rewrites = 0
    /\ styles = <<>>
    /\ css_classes = <<>>
    /\ elements_with_aicss = <<>>
    /\ ret = "none"

\* What a step of one module leaves alone
rest_of_html_processor == <<engine, output, watch, process>>
rest_of_engine == <<html_processor, output, watch, process>>
rest_of_output == <<html_processor, engine, watch, process>>
rest_of_watch == <<html_processor, engine, output, process>>
rest_of_process == <<html_processor, engine, output, watch>>

(***************************************************************************)
(* Tokens and lexemes                                                      *)
(***************************************************************************)
NoAttr == "~absent~"
NoDesc == "~none~"
NoId == [p |-> "", s |-> "", n |-> 0]

\* An id "aicss-..." has p = "aicss-"; any other id has p = "".
UserId(s) == [p |-> "", s |-> s, n |-> 0]
\* f"aicss-{i+1}" of extract_style_descriptions
OrdinalId(i) == [p |-> "aicss-", s |-> "", n |-> i]
\* f"aicss-{md5(str(element) + str(ordinal))[:8]}" of process_html_file: the
\* digest is taken to be injective, and is named by the place of the element.
HashId(i) == [p |-> "aicss-", s |-> "md5", n |-> i]

\* hashlib.md5(element_id.encode()).hexdigest()[:4] for the ids of this
\* model: the digits md5 gives.  'item-92' and 'item-151' have the same.
Md5Prefix ==
    ("e1" :> "cd3d") @@ ("e2" :> "68a9") @@ ("e3" :> "7ed2") @@
    ("e4" :> "38de") @@ ("hdr" :> "4ccd") @@
    ("item-92" :> "1a60") @@ ("item-151" :> "1a60")
OrdinalMd5Prefix == <<"b401", "2807", "1a52", "ecd8", "0c59", "c2fa">>

\* A digest suffix of a class name: its four hexadecimal digits, or, for
\* an id that is itself named by a digest, the id it is the digest of.
NoDigest == [hex |-> "", of |-> NoId]
short_hash(element_id) ==
    IF element_id.p = "" /\ element_id.s \in DOMAIN Md5Prefix
    THEN [hex |-> Md5Prefix[element_id.s], of |-> NoId]
    ELSE IF /\ element_id.p = "aicss-" /\ element_id.s = ""
            /\ element_id.n \in 1..Len(OrdinalMd5Prefix)
         THEN [hex |-> OrdinalMd5Prefix[element_id.n], of |-> NoId]
    ELSE [hex |-> "", of |-> element_id]

\* A class name: its dash-separated words and its digest suffix
\* (NoDigest: none).
ClassName(words) == [base |-> words, h |-> NoDigest]

Open(tag) == [k |-> "open", tag |-> tag, aicss |-> NoAttr, id |-> NoId,
              cls |-> <<>>, typ |-> NoAttr, txt |-> <<>>, css |-> <<>>]
Close(tag) == [k |-> "close", tag |-> tag, aicss |-> NoAttr, id |-> NoId,
               cls |-> <<>>, typ |-> NoAttr, txt |-> <<>>, css |-> <<>>]
Void(tag) == [k |-> "void", tag |-> tag, aicss |-> NoAttr, id |-> NoId,
              cls |-> <<>>, typ |-> NoAttr, txt |-> <<>>, css |-> <<>>]
\* A text node; Text(<<>>) is a node of white space only.
Text(lexs) == [k |-> "text", tag |-> "", aicss |-> NoAttr, id |-> NoId,
               cls |-> <<>>, typ |-> NoAttr, txt |-> lexs, css |-> <<>>]
\* <!--lexs-->: a comment node
CommentNode(lexs) == [Text(lexs) EXCEPT !.k = "comment"]
\* The text of a style element: its rules.
CssText(rules) == [k |-> "text", tag |-> "", aicss |-> NoAttr, id |-> NoId,
                   cls |-> <<>>, typ |-> NoAttr, txt |-> <<>>, css |-> rules]

W(v) == [d |-> "word", v |-> v, q |-> "", in |-> <<>>]
Kw == [d |-> "kw", v |-> "content", q |-> "", in |-> <<>>]
Dc(q, val) == [d |-> "content", v |-> "", q |-> q, in |-> val]
Dt(q, val) == [d |-> "text", v |-> "", q |-> q, in |-> val]
Ds(q, desc) == [d |-> "style", v |-> desc, q |-> q, in |-> <<>>]
Dws(q, desc) == [d |-> "wstyle", v |-> desc, q |-> q, in |-> <<>>]
Mk(tag, inner) == [d |-> "markup", v |-> tag, q |-> "", in |-> inner]
Ln(sel, desc) == [d |-> "line", v |-> sel, q |-> desc, in |-> <<>>]

IsDirective(l) == l.d \in {"content", "text", "style", "wstyle"}

(***************************************************************************)
(* Tag names.  tag.name.startswith('ai') and tag_name[2:] are tables.      *)
(***************************************************************************)
AiBase == [aidiv |-> "div", aip |-> "p", aibutton |-> "button", aia |-> "a",
           aitextarea |-> "textarea", aiimg |-> "img", aiinput |-> "input",
           aih1 |-> "h1", aicard |-> "card", aihtml |-> "html",
           aistyle |-> "style"]
IsAi(tag) == tag \in DOMAIN AiBase

(***************************************************************************)
(* Sequence helpers                                                        *)
(***************************************************************************)
Splice(toks, i, j, new) ==
    SubSeq(toks, 1, i - 1) \o new \o SubSeq(toks, j + 1, Len(toks))

\* The index of the end tag that closes the start tag at i (0: none).
RECURSIVE MatchFrom(_, _, _)
MatchFrom(toks, j, open) ==
    IF j > Len(toks) THEN 0
    ELSE IF toks[j].k = "open" THEN MatchFrom(toks, j + 1, open + 1)
    ELSE IF toks[j].k = "close"
         THEN IF open = 0 THEN j ELSE MatchFrom(toks, j + 1, open - 1)
    ELSE MatchFrom(toks, j + 1, open)
MatchClose(toks, i) == MatchFrom(toks, i + 1, 0)


(***************************************************************************)
(* Directive parser                                                        *)
(***************************************************************************)
\* The lexemes of a text in the order a left-to-right search meets them: a
\* regular expression searches the whole text, the values of enclosing
\* directives and the inside of literal markup included.
RECURSIVE Flat(_)
Flat(lexs) ==
    IF lexs = <<>> THEN <<>>
    ELSE <<Head(lexs)>> \o Flat(Head(lexs).in) \o Flat(Tail(lexs))

\* The first lexeme that satisfies a key's pattern (0: no match).  The
\* content pattern accepts an empty value, the others need one character.
RECURSIVE FirstMatch(_, _, _)
FirstMatch(fl, i, key) ==
    IF i > Len(fl) THEN 0
    ELSE IF \/ key = "content" /\ fl[i].d = "content"
            \/ key = "text" /\ fl[i].d = "text" /\ fl[i].in # <<>>
            \/ key = "style" /\ fl[i].d \in {"style", "wstyle"} /\ fl[i].v # ""
         THEN i
    ELSE FirstMatch(fl, i + 1, key)

\* extract_directives(text): for each key the value of its first match.
\* has[key] says that the key is in the returned dictionary.
extract_directives(lexs) ==
    LET fl == Flat(lexs)
        c == FirstMatch(fl, 1, "content")
        t == FirstMatch(fl, 1, "text")
        s == FirstMatch(fl, 1, "style")
    IN [has |-> [content |-> c # 0, text |-> t # 0, style |-> s # 0],
        content |-> IF c # 0 THEN fl[c].in ELSE <<>>,
        text |-> IF t # 0 THEN fl[t].in ELSE <<>>,
        style |-> IF s # 0 THEN fl[s].v ELSE NoAttr]

\* get_remaining_text(text, directives): every directive span is removed,
\* then the stray tags are removed, which leaves the text inside literal
\* markup.  A directive that matched no pattern (text "" with no value)
\* stays.
RECURSIVE get_remaining_text(_)
get_remaining_text(lexs) ==
    IF lexs = <<>> THEN <<>>
    ELSE LET h == Head(lexs)
             rest == get_remaining_text(Tail(lexs))
         IN IF h.d = "markup" THEN get_remaining_text(h.in) \o rest
            ELSE IF h.d = "content" THEN rest
            ELSE IF h.d = "text" /\ h.in # <<>> THEN rest
            ELSE IF h.d \in {"style", "wstyle"} /\ h.v # "" THEN rest
            ELSE <<h>> \o rest

\* The tokens BeautifulSoup(generated_html, 'html.parser') makes of text
\* that was formatted into generated markup: literal markup becomes
\* elements, the text between stays text, adjacent text is one node.
RECURSIVE Render(_)
Render(lexs) ==
    IF lexs = <<>> THEN <<>>
    ELSE LET h == Head(lexs)
             rest == Render(Tail(lexs))
         IN IF h.d = "markup"
            THEN <<Open(h.v)>> \o Render(h.in) \o <<Close(h.v)>> \o rest
            ELSE IF rest # <<>> /\ rest[1].k = "text"
                 THEN <<Text(<<h>> \o rest[1].txt)>> \o Tail(rest)
                 ELSE <<Text(<<h>>)>> \o rest

\* The text a regular-expression replacement writes between the tags of a
\* div it puts into the serialised document: there the markup of a text
\* node is entity-encoded, and stays text.
AsText(lexs) == IF lexs = <<>> THEN <<>> ELSE <<Text(lexs)>>

Placeholder == <<W("AI-generated content")>>

(***************************************************************************)
(* generate_html_from_tag, generate_html_from_description                  *)
(***************************************************************************)
\* content of the div / unknown-tag branches and of the default branch of
\* generate_html_from_description
DivContent(description, directives) ==
    IF directives.has.content THEN directives.content
    ELSE LET remaining == get_remaining_text(description)
         IN IF remaining = <<>> THEN Placeholder ELSE remaining

ButtonContent(description, directives) ==
    IF directives.has.text THEN directives.text ELSE <<W("Button")>>

TextTagContent(base_tag, directives) ==
    IF directives.has.text THEN directives.text
    ELSE IF base_tag = "a" THEN <<W("Link")>>
    ELSE IF base_tag = "p" THEN <<W("P Text")>>
    ELSE <<W("H1 Text")>>

generate_html_from_tag(tag_name, description) ==
    LET base_tag == AiBase[tag_name]
        directives == extract_directives(description)
        attributes(t) == [t EXCEPT !.aicss = directives.style]
    IN IF base_tag = "button"
       THEN <<[attributes(Open("button")) EXCEPT !.typ = "button"]>>
            \o Render(ButtonContent(description, directives))
            \o <<Close("button")>>
       ELSE IF base_tag \in {"input", "img"}
       THEN <<attributes(Void(base_tag))>>
       ELSE IF base_tag = "textarea"
       THEN <<attributes(Open("textarea"))>>
            \o Render(directives.content) \o <<Close("textarea")>>
       ELSE IF base_tag \in {"a", "p", "h1"}
       THEN <<attributes(Open(base_tag))>>
            \o Render(TextTagContent(base_tag, directives))
            \o <<Close(base_tag)>>
       ELSE <<attributes(Open("div"))>>
            \o Render(DivContent(description, directives))
            \o <<Close("div")>>

generate_html_from_description(description) ==
    LET directives == extract_directives(description)
    IN <<[Open("div") EXCEPT !.cls = <<ClassName(<<"ai-generated">>)>>,
                              !.aicss = directives.style]>>
       \o Render(DivContent(description, directives))
       \o <<Close("div")>>

(***************************************************************************)
(* Tree reading                                                            *)
(***************************************************************************)
\* tag.string of the element whose start tag is at i: the text of its only
\* child, or the .string of its only child element; none otherwise.
RECURSIVE TagString(_, _)
TagString(toks, i) ==
    LET j == MatchClose(toks, i)
    IN IF j = i + 2 /\ toks[i + 1].k = "text"
       THEN [some |-> TRUE, lexs |-> toks[i + 1].txt]
       ELSE IF j > i + 2 /\ toks[i + 1].k = "open"
               /\ MatchClose(toks, i + 1) = j - 1
       THEN TagString(toks, i + 1)
       ELSE [some |-> FALSE, lexs |-> <<>>]

\* description = tag.string.strip() if tag.string else ""
Description(toks, i) ==
    LET s == TagString(toks, i) IN IF s.some THEN s.lexs ELSE <<>>

\* Whether the document has an element whose name starts with 'ai'.
HasAiElement(toks) ==
    \E i \in 1..Len(toks) : toks[i].k \in {"open", "void"} /\ IsAi(toks[i].tag)

(***************************************************************************)
(* Parsers.  Both builders make one node of adjacent text, drop an end tag  *)
(* that closes nothing and close an element left open where its parent     *)
(* ends; html5lib also gives a document without an html element its html,  *)
(* head and body.                                                          *)
(***************************************************************************)
RECURSIVE MergeText(_)
MergeText(toks) ==
    IF Len(toks) < 2 THEN toks
    ELSE LET rest == MergeText(Tail(toks))
             h == Head(toks)
         IN IF h.k = "text" /\ rest[1].k = "text"
            THEN <<[h EXCEPT !.txt = h.txt \o rest[1].txt,
                             !.css = h.css \o rest[1].css]>> \o Tail(rest)
            ELSE <<h>> \o rest


InStack(stack, tag) == \E n \in 1..Len(stack) : stack[n] = tag

RECURSIVE CloseAll(_)
CloseAll(stack) ==
    IF stack = <<>> THEN <<>> ELSE <<Close(Head(stack))>> \o CloseAll(Tail(stack))

\* The end tags written, and the stack left, when the end tag of `tag`
\* arrives and `tag` is open.
RECURSIVE PopTo(_, _)
PopTo(stack, tag) ==
    IF Head(stack) = tag THEN [out |-> <<Close(tag)>>, stack |-> Tail(stack)]
    ELSE LET r == PopTo(Tail(stack), tag)
         IN [out |-> <<Close(Head(stack))>> \o r.out, stack |-> r.stack]

RECURSIVE Repair(_, _, _)
Repair(toks, j, stack) ==
    IF j > Len(toks) THEN CloseAll(stack)
    ELSE IF toks[j].k = "open"
         THEN <<toks[j]>> \o Repair(toks, j + 1, <<toks[j].tag>> \o stack)
    ELSE IF toks[j].k = "close"
         THEN IF InStack(stack, toks[j].tag)
              THEN LET r == PopTo(stack, toks[j].tag)
                   IN r.out \o Repair(toks, j + 1, r.stack)
              ELSE Repair(toks, j + 1, stack)
    ELSE <<toks[j]>> \o Repair(toks, j + 1, stack)

HasTag(toks, tag) ==
    \E i \in 1..Len(toks) : toks[i].k = "open" /\ toks[i].tag = tag

\* <x/> of a name that is no void element is a start tag and its end tag.
RECURSIVE StartEnd(_)
StartEnd(toks) ==
    IF toks = <<>> THEN <<>>
    ELSE (IF Head(toks).k = "void" /\ IsAi(Head(toks).tag)
          THEN <<[Head(toks) EXCEPT !.k = "open"], Close(Head(toks).tag)>>
          ELSE <<Head(toks)>>) \o StartEnd(Tail(toks))

html_parser(toks) == MergeText(Repair(StartEnd(toks), 1, <<>>))

html5lib(toks) ==
    LET repaired == html_parser(toks)
    IN IF HasTag(repaired, "html") THEN repaired
       ELSE <<Open("html"), Open("head"), Close("head"), Open("body")>>
            \o repaired \o <<Close("body"), Close("html")>>

(***************************************************************************)
(* The resolver nl_to_css_fast(description, selector)                      *)
(***************************************************************************)
\* Descriptions for which process_description finds no property.
Unrecognised == {"", "xyzzy"}

\* A simple selector; a selector is a comma-separated list of them.
IdSel(id) == [k |-> "id", tag |-> "", cls |-> <<>>, id |-> id]
ClassSel(c) == [k |-> "class", tag |-> "", cls |-> <<c>>, id |-> NoId]
TypeSel(tag) == [k |-> "type", tag |-> tag, cls |-> <<>>, id |-> NoId]
TagClassSel(tag, cls) == [k |-> "tagclass", tag |-> tag, cls |-> cls, id |-> NoId]

NoCss == [sel |-> <<>>, by |-> "none", desc |-> ""]

\* A comment line of a stylesheet
Comment(text) == [sel |-> <<>>, by |-> "comment", desc |-> text]

\* "raise": the call raises; otherwise the css text, NoCss for "".
Resolves(description) ==
    IF description = raises THEN "raise"
    ELSE IF description \in Unrecognised THEN "empty"
    ELSE "css"

nl_to_css_fast(description, selector) ==
    IF Resolves(description) = "css"
    THEN [sel |-> selector, by |-> "resolver", desc |-> description]
    ELSE NoCss

(***************************************************************************)
(* process_ai_tags: the aistyle elements                                   *)
(***************************************************************************)
\* The selectors written in aistyle lines: whether the word "class" is in
\* the selector, and the selector without it.
LineSelector ==
    ("body" :> [classword |-> FALSE, sel |-> <<TypeSel("body")>>, body |-> TRUE]) @@
    ("body class" :> [classword |-> TRUE, sel |-> <<TypeSel("body")>>, body |-> TRUE]) @@
    ("#hdr" :> [classword |-> FALSE, sel |-> <<IdSel(UserId("hdr"))>>, body |-> FALSE]) @@
    (".card" :> [classword |-> FALSE,
                 sel |-> <<ClassSel(ClassName(<<"card">>))>>, body |-> FALSE])

\* Descriptions in which the body-specific keyword rules find a property
\* ("font family", "line height", "color", "padding" with "lots"/"large").
BodyKeyworded == {"font family sans, line height 2, color #222222"}

\* The css of one line "selector: description" (NoCss: nothing appended).
LineCss(line) ==
    LET s == LineSelector[line.v]
    IN IF s.classword /\ s.body
       THEN IF line.q \in BodyKeyworded
            THEN [sel |-> s.sel, by |-> "body", desc |-> line.q]
            ELSE NoCss
       ELSE nl_to_css_fast(line.q, s.sel)

LineRaises(line) ==
    LET s == LineSelector[line.v]
    IN ~(s.classword /\ s.body) /\ Resolves(line.q) = "raise"

RECURSIVE LinesCss(_)
LinesCss(lines) ==
    IF lines = <<>> THEN <<>>
    ELSE LET css == LineCss(Head(lines))
         IN (IF css = NoCss THEN <<>> ELSE <<css>>) \o LinesCss(Tail(lines))

\* all_css_parts over the aistyle elements of the document, in order
RECURSIVE AllCssParts(_, _)
AllCssParts(toks, i) ==
    IF i > Len(toks) THEN <<>>
    ELSE IF toks[i].k = "open" /\ toks[i].tag = "aistyle"
         THEN LinesCss(Description(toks, i)) \o AllCssParts(toks, i + 1)
    ELSE AllCssParts(toks, i + 1)

AistyleRaises(toks) ==
    \E i \in 1..Len(toks) :
        /\ toks[i].k = "open" /\ toks[i].tag = "aistyle"
        /\ \E n \in 1..Len(Description(toks, i)) : LineRaises(Description(toks, i)[n])

\* tag.extract() of every element of the given name
RECURSIVE Extract(_, _)
Extract(toks, tag) ==
    IF toks = <<>> THEN <<>>
    ELSE IF Head(toks).k = "open" /\ Head(toks).tag = tag
         THEN Extract(SubSeq(toks, MatchClose(toks, 1) + 1, Len(toks)), tag)
    ELSE <<Head(toks)>> \o Extract(Tail(toks), tag)

\* The index of the first start tag of the given name (0: none): soup.find
RECURSIVE FindFrom(_, _, _)
FindFrom(toks, i, tag) ==
    IF i > Len(toks) THEN 0
    ELSE IF toks[i].k = "open" /\ toks[i].tag = tag THEN i
    ELSE FindFrom(toks, i + 1, tag)
Find(toks, tag) == FindFrom(toks, 1, tag)

StyleElement(rules) ==
    <<[Open("style") EXCEPT !.typ = "text/css"], CssText(rules), Close("style")>>

\* parent.append(nodes) for the element whose start tag is at i
AppendChild(toks, i, nodes) ==
    LET j == MatchClose(toks, i) IN Splice(toks, j, j - 1, nodes)

\* The document after the aistyle block of process_ai_tags.
process_aistyle(toks) ==
    LET parts == AllCssParts(toks, 1)
        without == Extract(toks, "aistyle")
        head == Find(without, "head")
    IN IF parts # <<>> /\ head # 0
       THEN AppendChild(without, head,
                        StyleElement(<<Comment("AI-generated styles")>> \o parts))
       ELSE without

(***************************************************************************)
(* process_ai_tags.process_html_recursively: one pass                      *)
(***************************************************************************)
max_depth == 5

Generated(tag_name, description, aihtml) ==
    IF aihtml THEN generate_html_from_description(description)
    ELSE generate_html_from_tag(tag_name, description)

\* for tag in soup.find_all(tag_name): the elements of that name are visited
\* in document order; one with a description is replaced by its generated
\* markup, and neither that markup nor the replaced subtree is visited.
\* Returns the document and the number of replacements.
RECURSIVE ProcessName(_, _, _, _, _)
ProcessName(toks, tag_name, aihtml, i, n) ==
    IF i > Len(toks) THEN [toks |-> toks, n |-> n]
    ELSE IF /\ toks[i].k = "open"
            /\ toks[i].tag = tag_name
            /\ Description(toks, i) # <<>>
         THEN LET new == Generated(tag_name, Description(toks, i), aihtml)
              IN ProcessName(Splice(toks, i, MatchClose(toks, i), new),
                             tag_name, aihtml, i + Len(new), n + 1)
    ELSE ProcessName(toks, tag_name, aihtml, i + 1, n)

\* [tag.name for tag in soup.find_all() if tag.name.startswith('ai') and
\*  tag.name not in ['aistyle']]
RECURSIVE AiNames(_)
AiNames(toks) ==
    IF toks = <<>> THEN <<>>
    ELSE (IF /\ Head(toks).k \in {"open", "void"}
             /\ IsAi(Head(toks).tag)
             /\ Head(toks).tag # "aistyle"
          THEN <<Head(toks).tag>> ELSE <<>>) \o AiNames(Tail(toks))

RECURSIVE ProcessNames(_, _, _)
ProcessNames(toks, names, n) ==
    IF names = <<>> THEN [toks |-> toks, n |-> n]
    ELSE LET r == ProcessName(toks, Head(names), FALSE, 1, n)
         IN ProcessNames(r.toks, Tail(names), r.n)

\* tag.is_empty_element: the html.parser builder gives it to void elements
\* only, and no name starting with 'ai' is one.
is_empty_element(tok) == tok.k = "void"

\* The loop over the self-closing custom tags: a div with the marker class
\* and the attributes except style.
RECURSIVE ReplaceSelfClosing(_, _)
ReplaceSelfClosing(toks, n) ==
    IF toks = <<>> THEN [toks |-> <<>>, n |-> n]
    ELSE IF IsAi(Head(toks).tag) /\ is_empty_element(Head(toks))
         THEN LET r == ReplaceSelfClosing(Tail(toks), n + 1)
              IN [toks |-> <<[Head(toks) EXCEPT
                                 !.k = "open", !.tag = "div",
                                 !.cls = IF @ = <<>>
                                         THEN <<ClassName(<<"ai-generated">>)>>
                                         ELSE @],
                             Close("div")>> \o r.toks,
                  n |-> r.n]
    ELSE LET r == ReplaceSelfClosing(Tail(toks), n)
         IN [toks |-> <<Head(toks)>> \o r.toks, n |-> r.n]

\* A pass that sets has_changes whatever it found
AlwaysChanges(toks) == [toks |-> toks, n |-> 1]

\* One call of process_html_recursively up to its recursive call: the
\* rewritten document and the number of replacements (has_changes: n > 0).
RecursivePass(toks) ==
    LET soup == html_parser(toks)
        a == ProcessName(soup, "aihtml", TRUE, 1, 0)
        b == ProcessNames(a.toks, AiNames(a.toks), a.n)
    IN ReplaceSelfClosing(b.toks, b.n)

(***************************************************************************)
(* The regular-expression passes over the serialised document              *)
(***************************************************************************)
\* The text of a span of the serialised document, without its tags.
RECURSIVE SpanText(_)
SpanText(toks) ==
    IF toks = <<>> THEN <<>>
    ELSE (IF Head(toks).k = "text" THEN Head(toks).txt ELSE <<>>)
         \o SpanText(Tail(toks))

\* get_remaining_text on serialised text: the markup of a text node is
\* entity-encoded there, so it is no stray tag and stays, without the
\* directives found inside it.
RECURSIVE remaining_serialised(_)
remaining_serialised(lexs) ==
    IF lexs = <<>> THEN <<>>
    ELSE LET h == Head(lexs)
             rest == remaining_serialised(Tail(lexs))
         IN IF h.d = "markup"
            THEN <<[h EXCEPT !.in = remaining_serialised(h.in)]>> \o rest
            ELSE IF h.d = "content" THEN rest
            ELSE IF h.d = "text" /\ h.in # <<>> THEN rest
            ELSE IF h.d \in {"style", "wstyle"} /\ h.v # "" THEN rest
            ELSE <<h>> \o rest

\* content[:-len('with style "..."')] when the content ends with the style
\* directive that was extracted
StripTrailingStyle(content, directives) ==
    IF /\ directives.has.style
       /\ content # <<>>
       /\ content[Len(content)].d \in {"style", "wstyle"}
       /\ content[Len(content)].v = directives.style
    THEN SubSeq(content, 1, Len(content) - 1)
    ELSE content

\* process_ai_tags.replace_ai_tag(match): the div written for one match of
\* <ai([^>]*)>(.*?)</ai[^>]*?>, whose group 2 is tag_content.
replace_ai_tag(tag_content) ==
    LET text == SpanText(tag_content)
        directives == extract_directives(text)
        content ==
            IF directives.has.content
            THEN StripTrailingStyle(directives.content, directives)
            ELSE IF directives.has.text THEN directives.text
            ELSE LET remaining == remaining_serialised(text)
                 IN IF remaining = <<>> THEN Placeholder ELSE remaining
    IN <<[Open("div") EXCEPT !.aicss = directives.style]>>
       \o AsText(content) \o <<Close("div")>>

RECURSIVE FirstDq(_, _, _)
FirstDq(fl, i, kinds) ==
    IF i > Len(fl) THEN 0
    ELSE IF fl[i].d \in kinds /\ fl[i].q = "dq"
            /\ (fl[i].v # "" \/ fl[i].in # <<>>)
         THEN i
    ELSE FirstDq(fl, i + 1, kinds)

\* process_html_file.replace_ai_tag(match): with\s+style\s+"([^"]+)" gives
\* the aicss attribute, content\s+"([^"]+)" the content, else the whole
\* tag_content is kept.
file_replace_ai_tag(tag_content) ==
    LET fl == Flat(SpanText(tag_content))
        s == FirstDq(fl, 1, {"wstyle"})
        c == FirstDq(fl, 1, {"content"})
    IN <<[Open("div") EXCEPT !.aicss = IF s # 0 THEN fl[s].v ELSE NoAttr]>>
       \o (IF c # 0 THEN AsText(fl[c].in) ELSE tag_content)
       \o <<Close("div")>>

\* The pattern </ai[^>]*> matching nowhere
NoAiClose(toks, i) == 0

\* The index of the first end tag of a custom element after i (0: none):
\* where .*? followed by </ai[^>]*> stops.
RECURSIVE FirstAiClose(_, _)
FirstAiClose(toks, i) ==
    IF i > Len(toks) THEN 0
    ELSE IF toks[i].k = "close" /\ IsAi(toks[i].tag) THEN i
    ELSE FirstAiClose(toks, i + 1)

\* re.sub(r'<ai([^>]*)>(.*?)</ai[^>]*>', replace, text, flags=re.DOTALL):
\* one left-to-right scan; the matches do not overlap and what a
\* replacement wrote is not scanned again.
RECURSIVE SubAiPairs(_, _)
SubAiPairs(toks, infile) ==
    IF toks = <<>> THEN <<>>
    ELSE LET j == FirstAiClose(toks, 2)
         IN IF Head(toks).k = "open" /\ IsAi(Head(toks).tag) /\ j # 0
            THEN (IF infile THEN file_replace_ai_tag(SubSeq(toks, 2, j - 1))
                  ELSE replace_ai_tag(SubSeq(toks, 2, j - 1)))
                 \o SubAiPairs(SubSeq(toks, j + 1, Len(toks)), infile)
            ELSE <<Head(toks)>> \o SubAiPairs(Tail(toks), infile)

\* re.sub(r'<ai([^/>]*)/>', '<div class="ai-generated"></div>', text): the
\* serialised document writes <x/> for void elements only.
RECURSIVE SubSelfClosing(_, _)
SubSelfClosing(toks, infile) ==
    IF toks = <<>> THEN <<>>
    ELSE (IF Head(toks).k = "void" /\ IsAi(Head(toks).tag)
          THEN <<IF infile
                 THEN [Head(toks) EXCEPT !.k = "open", !.tag = "div"]
                 ELSE [Open("div") EXCEPT !.cls = <<ClassName(<<"ai-generated">>)>>],
                 Close("div")>>
          ELSE <<Head(toks)>>) \o SubSelfClosing(Tail(toks), infile)

\* The final regular-expression pass of process_ai_tags.
final_regex_pass(toks) == SubSelfClosing(SubAiPairs(toks, FALSE), FALSE)

\* The loop of process_html_file: substitute until the text no longer
\* changes, then the self-closing tags.
RECURSIVE SubUntilStable(_)
SubUntilStable(toks) ==
    LET next == SubAiPairs(toks, TRUE)
    IN IF next = toks THEN toks ELSE SubUntilStable(next)

file_regex_loop(toks) == SubSelfClosing(SubUntilStable(toks), TRUE)

(***************************************************************************)
(* process_ai_tags: the terminal clean-up over the html5lib tree           *)
(***************************************************************************)
\* A text node that a clean-up step left without any character: it is in
\* the tree until the document is serialised.
Emptied == [Text(<<>>) EXCEPT !.tag = "emptied"]
SetText(tok, lexs) ==
    IF lexs = <<>> /\ tok.txt # <<>> THEN Emptied ELSE [tok EXCEPT !.txt = lexs]

\* find_all(string=...) meets the text nodes and the comment nodes: a
\* Comment is a NavigableString.
IsString(tok) == tok.k \in {"text", "comment"}

\* element.replace_with(new_text): new_text is a str, so what takes the
\* place of the node is a text node, also when the node was a comment.
ReplaceWith(tok, lexs) ==
    IF SetText(tok, lexs) = Emptied THEN Emptied
    ELSE [SetText(tok, lexs) EXCEPT !.k = "text"]

RECURSIVE DropEmptied(_)
DropEmptied(toks) ==
    IF toks = <<>> THEN <<>>
    ELSE (IF Head(toks) = Emptied THEN <<>> ELSE <<Head(toks)>>)
         \o DropEmptied(Tail(toks))

\* The start tag of the element that holds the node at i (0: none).
RECURSIVE ParentFrom(_, _, _)
ParentFrom(toks, i, j) ==
    IF j < 1 THEN 0
    ELSE IF toks[j].k = "open" /\ MatchClose(toks, j) > i THEN j
    ELSE ParentFrom(toks, i, j - 1)
ParentOf(toks, i) == ParentFrom(toks, i, i - 1)

\* '" with style "' in text (q = "dq"), "' with style '" in text (q = "sq")
HasQuotedWithStyle(lexs, q) ==
    \E n \in 2..Len(lexs) :
        /\ lexs[n].d = "wstyle" /\ lexs[n].q = q
        /\ IsDirective(lexs[n - 1]) /\ lexs[n - 1].q = q

RECURSIVE FirstWithStyle(_, _, _)
FirstWithStyle(fl, i, q) ==
    IF i > Len(fl) THEN 0
    ELSE IF fl[i].d = "wstyle" /\ fl[i].q = q /\ fl[i].v # "" THEN i
    ELSE FirstWithStyle(fl, i + 1, q)

\* re.sub(r'\s*with style "([^"]+)"', '', text)
RECURSIVE RemoveWithStyle(_, _)
RemoveWithStyle(lexs, q) ==
    IF lexs = <<>> THEN <<>>
    ELSE LET h == Head(lexs)
             rest == RemoveWithStyle(Tail(lexs), q)
         IN IF h.d = "wstyle" /\ h.q = q /\ h.v # "" THEN rest
            ELSE <<[h EXCEPT !.in = RemoveWithStyle(h.in, q)]>> \o rest

\* Steps 2 and 3: the style of a leaked 'content ".." with style ".."'
\* becomes the aicss attribute of the parent and leaves the text.
RECURSIVE FixLeakedStyle(_, _, _)
FixLeakedStyle(toks, i, q) ==
    IF i > Len(toks) THEN toks
    ELSE IF IsString(toks[i]) /\ HasQuotedWithStyle(toks[i].txt, q)
              /\ ParentOf(toks, i) # 0
              /\ FirstWithStyle(Flat(toks[i].txt), 1, q) # 0
         THEN LET fl == Flat(toks[i].txt)
                  style_text == fl[FirstWithStyle(fl, 1, q)].v
                  new_text == RemoveWithStyle(toks[i].txt, q)
              IN FixLeakedStyle(
                     [toks EXCEPT ![ParentOf(toks, i)].aicss = style_text,
                                  ![i] = ReplaceWith(@, new_text)],
                     i + 1, q)
    ELSE FixLeakedStyle(toks, i + 1, q)

\* re.sub(r'content "([^"]*)"', r'\1', text)
RECURSIVE UnwrapContent(_, _)
UnwrapContent(lexs, q) ==
    IF lexs = <<>> THEN <<>>
    ELSE LET h == Head(lexs)
             rest == UnwrapContent(Tail(lexs), q)
         IN IF h.d = "content" /\ h.q = q THEN UnwrapContent(h.in, q) \o rest
            ELSE <<[h EXCEPT !.in = UnwrapContent(h.in, q)]>> \o rest

\* Steps 4 and 4b: a text that starts with 'content "'
RECURSIVE FixLeadingContent(_, _, _)
FixLeadingContent(toks, i, q) ==
    IF i > Len(toks) THEN toks
    ELSE IF /\ IsString(toks[i]) /\ toks[i].txt # <<>>
            /\ toks[i].txt[1].d = "content" /\ toks[i].txt[1].q = q
            /\ ParentOf(toks, i) # 0
         THEN FixLeadingContent(
                  [toks EXCEPT ![i] = ReplaceWith(@, UnwrapContent(@.txt, q))],
                  i + 1, q)
    ELSE FixLeadingContent(toks, i + 1, q)

\* Step 5
PlaceholderTags == {"div", "a", "p", "h1", "h2", "h3", "h4", "h5", "h6", "span",
                    "button", "li", "td", "th", "textarea"}

PlaceholderText(tag_name) ==
    IF tag_name = "a" THEN "Link"
    ELSE IF tag_name = "button" THEN "Button"
    ELSE IF tag_name = "h1" THEN "Heading 1"
    ELSE IF tag_name = "h2" THEN "Heading 2"
    ELSE IF tag_name = "h3" THEN "Heading 3"
    ELSE IF tag_name = "h4" THEN "Heading 4"
    ELSE IF tag_name = "h5" THEN "Heading 5"
    ELSE IF tag_name = "h6" THEN "Heading 6"
    ELSE IF tag_name = "textarea" THEN "Enter your message here"
    ELSE "Content placeholder"

\* not element.get_text(strip=True), for the element from i to j, and no
\* child that is a string with a character: get_text leaves comments out,
\* the loop over the children does not.
NoText(toks, i, j) ==
    \A n \in (i + 1)..(j - 1) :
        /\ toks[n].k = "text" => toks[n].txt = <<>> /\ toks[n].css = <<>>
        /\ (toks[n].k = "comment" /\ toks[n].txt # <<>>) => ParentOf(toks, n) # i

\* Every element of the listed names without text is cleared and given
\* its placeholder; what was inside it is gone with it.
RECURSIVE FillEmpty(_, _)
FillEmpty(toks, i) ==
    IF i > Len(toks) THEN toks
    ELSE IF /\ toks[i].k = "open"
            /\ toks[i].tag \in PlaceholderTags
            /\ NoText(toks, i, MatchClose(toks, i))
         THEN FillEmpty(Splice(toks, i + 1, MatchClose(toks, i) - 1,
                               <<Text(<<W(PlaceholderText(toks[i].tag))>>)>>),
                        i + 3)
    ELSE FillEmpty(toks, i + 1)

\* 'content ' in text
HasContentWord(lexs) ==
    \E n \in 1..Len(Flat(lexs)) : Flat(lexs)[n].d \in {"content", "kw"}

\* re.sub(r'content\s+', '', text) after the quoted forms were unwrapped
RECURSIVE RemoveKeyword(_)
RemoveKeyword(lexs) ==
    IF lexs = <<>> THEN <<>>
    ELSE LET h == Head(lexs)
             rest == RemoveKeyword(Tail(lexs))
         IN IF h.d = "kw" THEN rest
            ELSE <<[h EXCEPT !.in = RemoveKeyword(h.in)]>> \o rest

\* re.sub(r'\s+with\s+style\s+"[^"]*"', '', text), both quotes: a directive
\* at the very start of the text has no white space before it and stays.
RemoveSpacedWithStyle(lexs) ==
    IF lexs # <<>> /\ lexs[1].d = "wstyle"
    THEN <<lexs[1]>> \o RemoveWithStyle(RemoveWithStyle(Tail(lexs), "sq"), "dq")
    ELSE RemoveWithStyle(RemoveWithStyle(lexs, "sq"), "dq")

RECURSIVE FixContentWords(_, _)
FixContentWords(toks, i) ==
    IF i > Len(toks) THEN toks
    ELSE IF IsString(toks[i]) /\ HasContentWord(toks[i].txt)
              /\ ParentOf(toks, i) # 0
         THEN FixContentWords(
                  [toks EXCEPT ![i] = ReplaceWith(@,
                      RemoveKeyword(UnwrapContent(UnwrapContent(
                          RemoveSpacedWithStyle(@.txt), "sq"), "dq")))],
                  i + 1)
    ELSE FixContentWords(toks, i + 1)

\* re.sub(r'"\s*([^"]*)\s*"', r'\1', text) and the same for ': what was a
\* directive is its keyword and its value, as plain words.
RECURSIVE Unquote(_)
Unquote(lexs) ==
    IF lexs = <<>> THEN <<>>
    ELSE LET h == Head(lexs)
             rest == Unquote(Tail(lexs))
         IN IF h.d \in {"content", "text"}
            THEN <<W(h.d)>> \o Unquote(h.in) \o rest
            ELSE IF h.d = "style" THEN <<W("style")>>
                 \o (IF h.v = "" THEN <<>> ELSE <<W(h.v)>>) \o rest
            ELSE IF h.d = "wstyle" THEN <<W("with style")>>
                 \o (IF h.v = "" THEN <<>> ELSE <<W(h.v)>>) \o rest
            ELSE <<[h EXCEPT !.in = Unquote(h.in)]>> \o rest

RECURSIVE FixQuotes(_, _)
FixQuotes(toks, i) ==
    IF i > Len(toks) THEN toks
    ELSE IF /\ IsString(toks[i]) /\ ParentOf(toks, i) # 0
            /\ Unquote(toks[i].txt) # toks[i].txt
         THEN FixQuotes([toks EXCEPT ![i] = ReplaceWith(@, Unquote(@.txt))], i + 1)
    ELSE FixQuotes(toks, i + 1)

\* The try block of process_ai_tags: parse with html5lib, repair, serialise.
sanitize(toks) ==
    LET final_soup == html5lib(toks)
        s2 == FixLeakedStyle(final_soup, 1, "dq")
        s3 == FixLeakedStyle(s2, 1, "sq")
        s4 == FixLeadingContent(s3, 1, "dq")
        s4b == FixLeadingContent(s4, 1, "sq")
        s5 == FillEmpty(s4b, 1)
        s8 == FixContentWords(s5, 1)
        s9 == FixQuotes(s8, 1)
    IN DropEmptied(s9)

(***************************************************************************)
(* preprocess_html_for_dangerous_entities                                  *)
(***************************************************************************)
\* The substitutions over the raw file that reach the text of this model:
\* &lt;tag and &lt;/tag are blanked, which leaves the &gt; of encoded markup;
\* content ".." becomes its value; with style ".." is deleted.
RECURSIVE PreprocessText(_)
PreprocessText(lexs) ==
    IF lexs = <<>> THEN <<>>
    ELSE LET h == Head(lexs)
             rest == PreprocessText(Tail(lexs))
         IN IF h.d = "markup"
            THEN <<W(">")>> \o PreprocessText(h.in) \o <<W(">")>> \o rest
            ELSE IF h.d = "content" THEN PreprocessText(h.in) \o rest
            ELSE IF h.d = "wstyle" THEN rest
            ELSE <<[h EXCEPT !.in = PreprocessText(h.in)]>> \o rest

RECURSIVE preprocess_html_for_dangerous_entities(_)
preprocess_html_for_dangerous_entities(toks) ==
    IF toks = <<>> THEN <<>>
    ELSE (IF Head(toks).k = "text"
          THEN <<[Head(toks) EXCEPT !.txt = PreprocessText(@)]>>
          ELSE <<Head(toks)>>)
         \o preprocess_html_for_dangerous_entities(Tail(toks))

(***************************************************************************)
(* Ordered dictionaries (dict keeps the order of first insertion)          *)
(***************************************************************************)
RECURSIVE KeyAt(_, _, _)
KeyAt(dict, key, n) ==
    IF n > Len(dict) THEN 0
    ELSE IF dict[n].key = key THEN n
    ELSE KeyAt(dict, key, n + 1)

\* dict[key] = value
Put(dict, key, value) ==
    IF KeyAt(dict, key, 1) # 0
    THEN [dict EXCEPT ![KeyAt(dict, key, 1)].value = value]
    ELSE Append(dict, [key |-> key, value |-> value])

HasKey(dict, key) == KeyAt(dict, key, 1) # 0
Get(dict, key) == dict[KeyAt(dict, key, 1)].value

(***************************************************************************)
(* _generate_semantic_class_name                                           *)
(***************************************************************************)
\* Which of the keywords a description holds: the tone, size and shape
\* suffix each ("" for none), by the order of the code's elif chains.
Keywords ==
    ("primary, rounded" :> [tone |-> "primary", size |-> "", shape |-> "rounded"]) @@
    ("large danger outline" :> [tone |-> "danger", size |-> "lg", shape |-> "outline"]) @@
    ("blue background" :> [tone |-> "", size |-> "", shape |-> ""]) @@
    ("xyzzy" :> [tone |-> "", size |-> "", shape |-> ""])

Suffix(w) == IF w = "" THEN <<>> ELSE <<w>>

_generate_semantic_class_name(element_id, element_tag, description) ==
    LET k == Keywords[description]
        class_name == <<element_tag>> \o Suffix(k.tone) \o Suffix(k.size)
                      \o Suffix(k.shape)
    IN IF class_name = <<element_tag>>
       THEN [base |-> class_name, h |-> short_hash(element_id)]
       ELSE [base |-> class_name, h |-> NoDigest]

(***************************************************************************)
(* extract_style_descriptions                                              *)
(***************************************************************************)
\* Whether the element has a usable description: the attribute is there
\* and is not empty after strip().
Described(tok) ==
    tok.k \in {"open", "void"} /\ tok.aicss # NoAttr /\ tok.aicss # ""

\* The number of elements with an aicss attribute before place i:
\* the i of enumerate(soup.select('[aicss]')).
RECURSIVE Ordinal(_, _)
Ordinal(toks, i) ==
    IF i <= 1 THEN 0
    ELSE Ordinal(toks, i - 1)
         + (IF toks[i - 1].k \in {"open", "void"} /\ toks[i - 1].aicss # NoAttr
            THEN 1 ELSE 0)


\* The tuples (element_id, selector, description), in document order.
RECURSIVE DescriptionsFrom(_, _)
DescriptionsFrom(toks, i) ==
    IF i > Len(toks) THEN <<>>
    ELSE IF Described(toks[i])
         THEN LET element_id == IF toks[i].id # NoId THEN toks[i].id
                                ELSE OrdinalId(Ordinal(toks, i) + 1)
                  selector == IF toks[i].cls # <<>>
                              THEN <<TagClassSel(toks[i].tag, toks[i].cls),
                                     IdSel(element_id)>>
                              ELSE <<IdSel(element_id)>>
              IN <<[element_id |-> element_id, selector |-> selector,
                    description |-> toks[i].aicss]>>
                 \o DescriptionsFrom(toks, i + 1)
    ELSE DescriptionsFrom(toks, i + 1)

extract_style_descriptions(toks) == DescriptionsFrom(toks, 1)

(***************************************************************************)
(* process_html_file: resolving the descriptions                           *)
(***************************************************************************)
\* list(executor.map(...)) re-raises what a call raised.
Stage1Raises(style_descriptions) ==
    \E n \in 1..Len(style_descriptions) :
        Resolves(style_descriptions[n].description) = "raise"

\* soup.find(id=element_id): the first element with that id (0: none).  The
\* ids that extract_style_descriptions assigned are on its own parse of
\* the document, not on soup.
RECURSIVE FindId(_, _, _)
FindId(toks, i, element_id) ==
    IF i > Len(toks) THEN 0
    ELSE IF toks[i].k \in {"open", "void"} /\ toks[i].id = element_id THEN i
    ELSE FindId(toks, i + 1, element_id)

\* for element_id, css in results: ...   Returns styles and css_classes.
RECURSIVE Stage1Results(_, _, _, _)
Stage1Results(soup, style_descriptions, n, acc) ==
    IF n > Len(style_descriptions) THEN acc
    ELSE LET d == style_descriptions[n]
             css == nl_to_css_fast(d.description, d.selector)
             element == FindId(soup, 1, d.element_id)
         IN IF css = NoCss
            THEN Stage1Results(soup, style_descriptions, n + 1, acc)
            ELSE Stage1Results(soup, style_descriptions, n + 1,
                   [styles |-> Put(acc.styles, d.element_id, css),
                    css_classes |->
                        IF element # 0
                        THEN Put(acc.css_classes, d.element_id,
                                 _generate_semantic_class_name(
                                     d.element_id, soup[element].tag, d.description))
                        ELSE acc.css_classes])

Stage2Raises(soup) ==
    \E i \in 1..Len(soup) : Described(soup[i]) /\ Resolves(soup[i].aicss) = "raise"

\* for element in soup.find_all(lambda tag: tag.has_attr('aicss')): ...
\* Returns the document (ids assigned), styles, css_classes and
\* elements_with_aicss.
RECURSIVE Stage2Elements(_, _, _)
Stage2Elements(soup, i, acc) ==
    IF i > Len(soup) THEN [acc EXCEPT !.soup = soup]
    ELSE IF Described(soup[i])
         THEN LET element_id == IF soup[i].id # NoId THEN soup[i].id ELSE HashId(i)
                  element_css == nl_to_css_fast(soup[i].aicss, <<IdSel(element_id)>>)
                  class_name == _generate_semantic_class_name(
                                    element_id, soup[i].tag, soup[i].aicss)
                  with_id == [soup EXCEPT ![i].id = element_id]
              IN IF element_css = NoCss
                 THEN Stage2Elements(with_id, i + 1, acc)
                 ELSE Stage2Elements(with_id, i + 1,
                        [acc EXCEPT
                           !.styles = Put(@, element_id, element_css),
                           !.css_classes = Put(@, element_id, class_name),
                           !.elements_with_aicss =
                               Append(@, [element |-> i, element_id |-> element_id,
                                          class_name |-> class_name])])
    ELSE Stage2Elements(soup, i + 1, acc)

(***************************************************************************)
(* process_html_file: classes for attributes                               *)
(***************************************************************************)
InClasses(classes, class_name) ==
    \E n \in 1..Len(classes) : classes[n] = class_name

\* classes.append(class_name) without the membership test
AlwaysAppend(classes, class_name) == Append(classes, class_name)

\* if class_name not in classes: classes.append(class_name)
AddClass(classes, class_name) ==
    IF InClasses(classes, class_name) THEN classes ELSE Append(classes, class_name)

RECURSIVE ReplaceAttributes(_, _, _)
ReplaceAttributes(soup, elements, n) ==
    IF n > Len(elements) THEN soup
    ELSE LET e == elements[n]
         IN ReplaceAttributes(
                [soup EXCEPT ![e.element] =
                    [@ EXCEPT !.aicss = NoAttr,
                              !.cls = AddClass(@, e.class_name),
                              !.id = IF e.element_id.p = "aicss-" THEN NoId ELSE @]],
                elements, n + 1)

(***************************************************************************)
(* process_html_file: the stylesheet                                       *)
(***************************************************************************)
\* The css left as the resolver wrote it
KeepSelector(sel, element_id, class_name) == sel

\* css.replace(f"#{element_id}", f".{class_name}")
RECURSIVE ReplaceSelector(_, _, _)
ReplaceSelector(sel, element_id, class_name) ==
    IF sel = <<>> THEN <<>>
    ELSE (IF Head(sel) = IdSel(element_id)
          THEN <<ClassSel(class_name)>> ELSE <<Head(sel)>>)
         \o ReplaceSelector(Tail(sel), element_id, class_name)

\* for element_id, css in styles.items(): the rules appended to style_tag
RECURSIVE StyleTagRules(_, _, _)
StyleTagRules(dict, classes, n) ==
    IF n > Len(dict) THEN <<>>
    ELSE (IF HasKey(classes, dict[n].key)
          THEN <<[dict[n].value EXCEPT
                     !.sel = ReplaceSelector(@, dict[n].key,
                                             Get(classes, dict[n].key))]>>
          ELSE <<>>)
         \o StyleTagRules(dict, classes, n + 1)

\* head.find_all('style'): the places of the style start tags in the head
RECURSIVE StylesIn(_, _, _)
StylesIn(toks, i, j) ==
    IF i >= j THEN <<>>
    ELSE (IF toks[i].k = "open" /\ toks[i].tag = "style" THEN <<i>> ELSE <<>>)
         \o StylesIn(toks, i + 1, j)

\* The place where the style rules go, and what goes there.
Assembly(soup, dict, classes) ==
    LET rules == <<Comment("Generated by AI CSS Framework")>>
                 \o StyleTagRules(dict, classes, 1)
        style_tag == <<[Open("style") EXCEPT !.typ = "text/css"],
                       CssText(rules), Close("style")>>
        head == Find(soup, "head")
        existing_styles == StylesIn(soup, head + 1, MatchClose(soup, head))
        last == existing_styles[Len(existing_styles)]
    IN IF head # 0
       THEN IF existing_styles # <<>> /\ soup[last].typ = "text/css"
            THEN [at |-> MatchClose(soup, last), nodes |-> <<CssText(rules)>>,
                  ok |-> TRUE]
            ELSE [at |-> MatchClose(soup, head), nodes |-> style_tag, ok |-> TRUE]
       ELSE IF Find(soup, "html") # 0
            THEN [at |-> Find(soup, "html") + 1,
                  nodes |-> <<Open("head")>> \o style_tag \o <<Close("head")>>,
                  ok |-> TRUE]
            ELSE [at |-> 0, nodes |-> <<>>, ok |-> FALSE]

\* The document with the nodes put in at the place.  Text appended after
\* text is one text in str(soup).
Inserted(soup, a) ==
    IF Len(a.nodes) = 1 /\ a.nodes[1].k = "text" /\ soup[a.at - 1].k = "text"
    THEN [soup EXCEPT ![a.at - 1].css = @ \o a.nodes[1].css]
    ELSE Splice(soup, a.at, a.at - 1, a.nodes)

\* The references held in elements_with_aicss after nodes went in at a place.
RECURSIVE Shifted(_, _, _)
Shifted(elements, at, by) ==
    IF elements = <<>> THEN <<>>
    ELSE <<[Head(elements) EXCEPT !.element = IF @ >= at THEN @ + by ELSE @]>>
         \o Shifted(Tail(elements), at, by)

\* del element['aicss'] everywhere; del element['id'] for ids starting 'aicss-'
RECURSIVE StripAttributes(_)
StripAttributes(toks) ==
    IF toks = <<>> THEN <<>>
    ELSE <<[Head(toks) EXCEPT !.aicss = NoAttr,
                              !.id = IF @.p = "aicss-" THEN NoId ELSE @]>>
         \o StripAttributes(Tail(toks))

(***************************************************************************)
(* The documents given to the processor                                    *)
(***************************************************************************)
\* Deepest nesting of custom elements in a generated document
MaxNest == 6
\* Most elements with a style description in a generated document
MaxStyled == 2

AiTags == DOMAIN AiBase \ {"aistyle"}

\* Bodies of a custom element
Bodies ==
    { <<W("hello")>>,
      <<Dc("dq", <<W("Go")>>)>>,
      <<Dt("dq", <<W("Go")>>), Dws("dq", "primary, rounded")>>,
      <<Dc("dq", <<W("Hi")>>), Dws("dq", "blue background")>>,
      <<Dc("dq", <<Mk("aip", <<Dt("sq", <<W("x")>>)>>)>>)>>,
      <<Dc("sq", <<>>)>>,
      <<W("hello"), Ds("dq", "blue background")>>,
      <<Dt("sq", <<W("T")>>), Dc("dq", <<W("C")>>)>>,
      <<Kw>> }

\* <tag>body</tag>
Single(tag, body) == <<Open(tag), Text(body), Close(tag)>>

\* Custom elements nested n deep, each holding text beside its child
RECURSIVE Mixed(_)
Mixed(n) ==
    IF n = 1 THEN Single("aip", <<W("leaf")>>)
    ELSE <<Open("aidiv"), Text(<<W("t")>>)>> \o Mixed(n - 1) \o <<Close("aidiv")>>

\* Custom elements nested n deep, each the only child of its parent
RECURSIVE Chain(_)
Chain(n) ==
    IF n = 1 THEN Single("aip", <<Dt("dq", <<W("leaf")>>)>>)
    ELSE <<Open("aidiv")>> \o Chain(n - 1) \o <<Close("aidiv")>>

\* Custom elements n deep, each but the outermost written as encoded
\* markup in the content directive of the one around it
RECURSIVE Revealed(_)
Revealed(n) ==
    IF n = 1 THEN <<Dt("sq", <<W("x")>>)>>
    ELSE <<Dc("dq", <<Mk(IF n = 2 THEN "aip" ELSE "aidiv", Revealed(n - 1))>>)>>

ExpansionDocs ==
    { Single(tag, body) : tag \in AiTags, body \in Bodies }
    \cup { Single("aidiv", Revealed(n)) : n \in 2..MaxNest }
    \cup { <<Open(tag), Close(tag)>> : tag \in AiTags }
    \cup { <<Void(tag)>> : tag \in {"aiimg", "aidiv"} }
    \cup { <<[Void("aip") EXCEPT !.cls = <<ClassName(<<"card">>)>>,
                                 !.id = UserId("e1")]>> }
    \cup { Mixed(n) : n \in 2..MaxNest }
    \cup { Chain(n) : n \in 2..MaxNest }
    \cup { <<Open("aidiv"), Text(<<W("a")>>), Open("p"), Text(<<W("b")>>),
             Close("p")>>,
           <<Open("aidiv"), Text(<<W("hi")>>), Open("aip"), Text(<<W("x")>>),
             Close("aip"), Close("aidiv")>> }

\* Documents without custom elements, for the terminal clean-up
LeakedTexts ==
    { <<Kw>>, <<Kw, W("x")>>, <<W("hi")>>,
      <<Dc("dq", <<W("x")>>), Dws("dq", "blue background")>>,
      <<Dc("sq", <<W("x")>>), Dws("sq", "blue background")>>,
      <<Dws("dq", "blue background")>>,
      <<W("a"), Dt("dq", <<W("b")>>)>> }

CleanupDocs ==
    { Single(tag, text) : tag \in {"p", "div", "span", "h1"}, text \in LeakedTexts }
    \cup { <<Open(tag), Close(tag)>> : tag \in {"p", "div", "a", "h2", "textarea", "section"} }
    \cup { <<Open("div"), Open("span"), Close("span"), Close("div")>>,
           <<Open("div"), Void("img"), Close("div")>>,
           <<Open("div"), Open("section"), Open("p"), Close("p"),
             Close("section"), Close("div")>> }

\* What a comment holds: words, the word 'content ', quoted directives
CommentTexts ==
    { <<W("note")>>, <<Kw, W("x")>>, <<Dc("dq", <<W("x")>>)>>,
      <<Dt("sq", <<W("x")>>)>> }

\* Documents with a comment, beside the text of an element and after it
CommentDocs ==
    { <<Open("p"), Text(<<W("hi")>>), CommentNode(c), Close("p")>> :
        c \in CommentTexts }
    \cup { <<Open("p"), Text(<<W("hi")>>), Close("p"), CommentNode(c)>> :
             c \in CommentTexts }

\* Elements that carry a style description
PosId == <<UserId("e1"), UserId("e2"), UserId("e3"), UserId("e4")>>

Kinds ==
    { [tag |-> "div", hasid |-> FALSE, aicss |-> "blue background", cls |-> <<>>],
      [tag |-> "button", hasid |-> TRUE, aicss |-> "primary, rounded", cls |-> <<>>],
      [tag |-> "button", hasid |-> FALSE, aicss |-> "primary, rounded",
       cls |-> <<ClassName(<<"button", "primary", "rounded">>)>>],
      [tag |-> "div", hasid |-> TRUE, aicss |-> "xyzzy", cls |-> <<>>],
      [tag |-> "div", hasid |-> FALSE, aicss |-> "", cls |-> <<>>],
      [tag |-> "p", hasid |-> TRUE, aicss |-> "large danger outline",
       cls |-> <<ClassName(<<"card">>)>>] }

Element(kind, n) ==
    <<[Open(kind.tag) EXCEPT !.aicss = kind.aicss, !.cls = kind.cls,
                             !.id = IF kind.hasid THEN PosId[n] ELSE NoId],
      Text(<<W("t")>>), Close(kind.tag)>>

RECURSIVE Elements(_, _)
Elements(kinds, n) ==
    IF n > Len(kinds) THEN <<>>
    ELSE Element(kinds[n], n) \o Elements(kinds, n + 1)

StyledBodies ==
    UNION { { Elements(ks, 1) : ks \in [1..n -> Kinds] } : n \in 1..MaxStyled }

AuthorRule == [sel |-> <<TypeSel("h1")>>, by |-> "author", desc |-> ""]

\* What the head of a document holds (NoHead: the document is a fragment)
Heads ==
    { <<>>,
      <<Open("title"), Text(<<W("t")>>), Close("title")>>,
      <<Open("style"), CssText(<<AuthorRule>>), Close("style")>>,
      <<[Open("style") EXCEPT !.typ = "text/css"], CssText(<<AuthorRule>>),
        Close("style")>> }

Page(head, body) ==
    <<Open("html"), Open("head")>> \o head
    \o <<Close("head"), Open("body")>> \o body \o <<Close("body"), Close("html")>>

\* aistyle elements
StyleLines ==
    { <<Ln("#hdr", "blue background")>>,
      <<Ln("body", "font family sans, line height 2, color #222222")>>,
      <<Ln("body class", "font family sans, line height 2, color #222222")>>,
      <<Ln("body class", "blue background")>>,
      <<Ln(".card", "xyzzy"), Ln(".card", "primary, rounded")>> }

StyleDocs ==
    StyledBodies
    \cup { Page(head, body) : head \in Heads, body \in StyledBodies }
    \cup { Page(<<>>, Single("aistyle", lines) \o body) :
             lines \in StyleLines,
             body \in {<<>>, Element(CHOOSE k \in Kinds : k.tag = "p", 1)} }
    \cup { Single("aistyle", lines) : lines \in StyleLines }

\* Documents whose first element has the id 'aicss-2', written by the user
PrefixedDocs ==
    { <<[Open("p") EXCEPT !.id = OrdinalId(2)], Text(<<W("t")>>), Close("p")>> }
    \cup { [body EXCEPT ![1].id = OrdinalId(2)] : body \in StyledBodies }

Documents ==
    ExpansionDocs \cup CleanupDocs \cup CommentDocs \cup StyleDocs
    \cup PrefixedDocs

\* The descriptions a document hands to the resolver
Mentions(toks, description) ==
    \E i \in 1..Len(toks) :
        \/ toks[i].aicss = description
        \/ \E n \in 1..Len(Flat(toks[i].txt)) :
               LET l == Flat(toks[i].txt)[n]
               IN \/ l.d \in {"style", "wstyle"} /\ l.v = description
                  \/ l.d = "line" /\ l.q = description

(***************************************************************************)
(* The two entry points as a state machine                                 *)
(***************************************************************************)
Init ==
    /\ EngineNotCalled
    /\ NoOutputPath
    /\ NotWatching
    /\ NotProcessing
    /\ entry \in {"file", "tags"}
    /\ input \in Documents
    /\ raises \in {NoDesc, "blue background", "primary, rounded"}
    /\ raises = NoDesc \/ Mentions(input, raises)
    /\ html = input
    /\ pc = IF entry = "file" THEN "preprocess" ELSE "aistyle"
    /\ depth = 0
    /\ passes = 0
    /\ rewrites = 0
    /\ styles = <<>>
    /\ css_classes = <<>>
    /\ elements_with_aicss = <<>>
    /\ ret = "none"

\* process_html_file: html_content = preprocess_html_for_dangerous_entities(..)
Preprocess ==
    /\ UNCHANGED rest_of_html_processor
    /\ pc = "preprocess"
    /\ html' = preprocess_html_for_dangerous_entities(html)
    /\ pc' = "aistyle"
    /\ UNCHANGED <<entry, input, raises, depth, passes, rewrites, styles,
                   css_classes, elements_with_aicss, ret>>

\* process_ai_tags: the parse and the aistyle block.  What the resolver
\* raises leaves process_ai_tags; process_html_file catches it.
AiStyle ==
    /\ UNCHANGED rest_of_html_processor
    /\ pc = "aistyle"
    /\ LET soup == html_parser(html)
       IN IF AistyleRaises(soup)
          THEN /\ html' = html
               /\ pc' = IF entry = "file" THEN "except" ELSE "done"
               /\ ret' = IF entry = "file" THEN ret ELSE "error"
          ELSE /\ html' = process_aistyle(soup)
               /\ pc' = "recurse"
               /\ ret' = ret
    /\ UNCHANGED <<entry, input, raises, depth, passes, rewrites, styles,
                   css_classes, elements_with_aicss>>

\* One call of process_html_recursively: it calls itself while a pass made
\* changes and current_depth < max_depth - 1.
RecursePass ==
    /\ UNCHANGED rest_of_html_processor
    /\ pc = "recurse"
    /\ depth < max_depth
    /\ LET r == RecursivePass(html)
       IN /\ html' = r.toks
          /\ rewrites' = r.n
          /\ passes' = passes + 1
          /\ IF r.n > 0 /\ depth < max_depth - 1
             THEN depth' = depth + 1 /\ pc' = "recurse"
             ELSE depth' = depth /\ pc' = "regex"
    /\ UNCHANGED <<entry, input, raises, styles, css_classes,
                   elements_with_aicss, ret>>

\* The two re.sub calls after the recursion
FinalRegex ==
    /\ UNCHANGED rest_of_html_processor
    /\ pc = "regex"
    /\ html' = final_regex_pass(html)
    /\ pc' = "sanitize"
    /\ UNCHANGED <<entry, input, raises, depth, passes, rewrites, styles,
                   css_classes, elements_with_aicss, ret>>

\* The try block at the end of process_ai_tags, and its return
Sanitize ==
    /\ UNCHANGED rest_of_html_processor
    /\ pc = "sanitize"
    /\ html' = sanitize(html)
    /\ pc' = IF entry = "file" THEN "loop" ELSE "done"
    /\ ret' = IF entry = "file" THEN ret ELSE "ok"
    /\ UNCHANGED <<entry, input, raises, depth, passes, rewrites, styles,
                   css_classes, elements_with_aicss>>

\* process_html_file: the while loop, the self-closing pattern, the parse
CleanupLoop ==
    /\ UNCHANGED rest_of_html_processor
    /\ pc = "loop"
    /\ html' = html_parser(file_regex_loop(html))
    /\ pc' = "stage1"
    /\ UNCHANGED <<entry, input, raises, depth, passes, rewrites, styles,
                   css_classes, elements_with_aicss, ret>>

\* extract_style_descriptions and the executor.map over its result
Stage1 ==
    /\ UNCHANGED rest_of_html_processor
    /\ pc = "stage1"
    /\ LET style_descriptions == extract_style_descriptions(html)
           r == Stage1Results(html, style_descriptions, 1,
                              [styles |-> <<>>, css_classes |-> <<>>])
       IN IF Stage1Raises(style_descriptions)
          THEN pc' = "except" /\ styles' = styles /\ css_classes' = css_classes
          ELSE pc' = "stage2" /\ styles' = r.styles /\ css_classes' = r.css_classes
    /\ UNCHANGED <<entry, input, html, raises, depth, passes, rewrites,
                   elements_with_aicss, ret>>

\* The loop over the elements with an aicss attribute
Stage2 ==
    /\ UNCHANGED rest_of_html_processor
    /\ pc = "stage2"
    /\ LET r == Stage2Elements(html, 1,
                    [soup |-> html, styles |-> styles, css_classes |-> css_classes,
                     elements_with_aicss |-> <<>>])
       IN IF Stage2Raises(html)
          THEN /\ pc' = "except"
               /\ UNCHANGED <<html, styles, css_classes, elements_with_aicss>>
          ELSE /\ pc' = "replace"
               /\ html' = r.soup
               /\ styles' = r.styles
               /\ css_classes' = r.css_classes
               /\ elements_with_aicss' = r.elements_with_aicss
    /\ UNCHANGED <<entry, input, raises, depth, passes, rewrites, ret>>

\* "Now replace attributes with classes"
Replace ==
    /\ UNCHANGED rest_of_html_processor
    /\ pc = "replace"
    /\ html' = ReplaceAttributes(html, elements_with_aicss, 1)
    /\ pc' = "assemble"
    /\ UNCHANGED <<entry, input, raises, depth, passes, rewrites, styles,
                   css_classes, elements_with_aicss, ret>>

\* "Add the extracted styles to the document"
Assemble ==
    /\ UNCHANGED rest_of_html_processor
    /\ pc = "assemble"
    /\ LET a == Assembly(html, styles, css_classes)
       IN IF styles = <<>>
          THEN pc' = "cleanup" /\ UNCHANGED <<html, elements_with_aicss>>
          ELSE IF a.ok
          THEN /\ pc' = "cleanup"
               /\ html' = Inserted(html, a)
               /\ elements_with_aicss' =
                      Shifted(elements_with_aicss, a.at,
                              Len(Inserted(html, a)) - Len(html))
          ELSE pc' = "except" /\ UNCHANGED <<html, elements_with_aicss>>
    /\ UNCHANGED <<entry, input, raises, depth, passes, rewrites, styles,
                   css_classes, ret>>

\* The final pass over the attributes, str(soup), and the return
FinalCleanup ==
    /\ UNCHANGED rest_of_html_processor
    /\ pc = "cleanup"
    /\ html' = StripAttributes(html)
    /\ pc' = "done"
    /\ ret' = "ok"
    /\ UNCHANGED <<entry, input, raises, depth, passes, rewrites, styles,
                   css_classes, elements_with_aicss>>

\* except Exception: return "", {}
Except ==
    /\ UNCHANGED rest_of_html_processor
    /\ pc = "except"
    /\ html' = <<>>
    /\ styles' = <<>>
    /\ pc' = "done"
    /\ ret' = "error"
    /\ UNCHANGED <<entry, input, raises, depth, passes, rewrites,
                   css_classes, elements_with_aicss>>

Next ==
    \/ Preprocess
    \/ AiStyle
    \/ RecursePass
    \/ FinalRegex
    \/ Sanitize
    \/ CleanupLoop
    \/ Stage1
    \/ Stage2
    \/ Replace
    \/ Assemble
    \/ FinalCleanup
    \/ Except

Spec == Init /\ [][Next]_vars

(***************************************************************************)
(* Reading a document for the properties                                   *)
(***************************************************************************)
\* How deep the custom elements of a document are nested
RECURSIVE NestFrom(_, _, _, _)
NestFrom(toks, i, stack, best) ==
    IF i > Len(toks) THEN best
    ELSE IF toks[i].k = "open"
         THEN LET d == Len(SelectSeq(stack, LAMBDA b : b)) + (IF IsAi(toks[i].tag) THEN 1 ELSE 0)
              IN NestFrom(toks, i + 1, <<IsAi(toks[i].tag)>> \o stack,
                          IF d > best THEN d ELSE best)
    ELSE IF toks[i].k = "close" /\ stack # <<>>
         THEN NestFrom(toks, i + 1, Tail(stack), best)
    ELSE NestFrom(toks, i + 1, stack, best)
Nesting(toks) == NestFrom(html_parser(toks), 1, <<>>, 0)

\* The rules of the style sheets of a document, in order
RECURSIVE RulesOf(_)
RulesOf(toks) ==
    IF toks = <<>> THEN <<>> ELSE Head(toks).css \o RulesOf(Tail(toks))

\* The rules that follow the comment process_html_file writes before its rules
RECURSIVE After(_, _)
After(rules, marker) ==
    IF rules = <<>> THEN <<>>
    ELSE IF Head(rules) = marker THEN Tail(rules)
    ELSE After(Tail(rules), marker)
GeneratedRules(toks) == After(RulesOf(toks), Comment("Generated by AI CSS Framework"))

HasIdSelector(rule) == \E n \in 1..Len(rule.sel) : rule.sel[n].k = "id"

Returned == entry = "file" /\ pc = "done" /\ ret = "ok"

(***************************************************************************)
(* C1                                                                      *)
(***************************************************************************)
\* C1: when process_html_recursively has returned for a document whose
\* custom elements are nested at most max_depth - 1 deep, the document has
\* no custom element, whatever the custom elements held (one text, text
\* beside child elements, or nothing between a start tag and its end tag).
C1_RecursionLeavesNoCustomElement ==
    (/\ pc = "regex"
     /\ Nesting(input) <= max_depth - 1
     /\ \A i \in 1..Len(input) : input[i].k # "void")
    => ~HasAiElement(html)

C3_SanitizeIdempotent ==
    (entry = "tags" /\ pc = "done" /\ ret = "ok") => sanitize(html) = html

(***************************************************************************)
(* C4                                                                      *)
(***************************************************************************)
\* The order the claim gives: content, else text, else the remaining text,
\* else the literal placeholder.
ResolutionOrder(body) ==
    LET directives == extract_directives(body)
    IN IF directives.has.content THEN directives.content
       ELSE IF directives.has.text THEN directives.text
       ELSE IF get_remaining_text(body) # <<>> THEN get_remaining_text(body)
       ELSE Placeholder

\* The input is one custom element with a body, its replacement no void element
OneGenericTag ==
    /\ Len(input) = 3
    /\ input[1].k = "open"
    /\ IsAi(input[1].tag)
    /\ input[1].tag \notin {"aihtml", "aistyle", "aiimg", "aiinput"}
    /\ input[2].k = "text"
    /\ input[2].txt # <<>>

\* C4: after the pass that replaced a generic custom element, what is
\* inside the replacement is the content directive if there is one, else
\* the text directive, else the remaining text, else 'AI-generated
\* content', whatever the base name of the element.
C4_ContentResolutionOrder ==
    (entry = "tags" /\ passes = 1 /\ rewrites = 1 /\ OneGenericTag)
    => SubSeq(html, 2, Len(html) - 1) = Render(ResolutionOrder(input[2].txt))

(***************************************************************************)
(* C5                                                                      *)
(***************************************************************************)
\* C5: no generated rule of the returned document, from an aicss attribute
\* or from an aistyle line, has an identifier selector.
C5_NoIdentifierSelector ==
    Returned =>
        \A n \in 1..Len(RulesOf(html)) :
            RulesOf(html)[n].by \in {"resolver", "body"}
            => ~HasIdSelector(RulesOf(html)[n])

\* C5, amended: no rule generated from an aicss attribute has an identifier
\* selector in the returned document.
C5_NoIdentifierSelectorFromAttributes ==
    Returned =>
        \A n \in 1..Len(GeneratedRules(html)) :
            ~HasIdSelector(GeneratedRules(html)[n])

C5_AttributeRuleReturned ==
    /\ Returned
    /\ \E n \in 1..Len(GeneratedRules(html)) :
           /\ GeneratedRules(html)[n].by = "resolver"
           /\ GeneratedRules(html)[n].sel[1].k = "class"

(***************************************************************************)
(* C6                                                                      *)
(***************************************************************************)
RECURSIVE Count(_, _)
Count(classes, class_name) ==
    IF classes = <<>> THEN 0
    ELSE (IF Head(classes) = class_name THEN 1 ELSE 0)
         + Count(Tail(classes), class_name)

C7_ResolverFailureIsContained ==
    (entry = "file" /\ pc = "done" /\ ~HasTag(input, "aistyle"))
    => (ret = "ok" /\ html # <<>>)

(***************************************************************************)
(* C8                                                                      *)
(***************************************************************************)
Styled(i) ==
    \E n \in 1..Len(elements_with_aicss) : elements_with_aicss[n].element = i

ClassOf(i) ==
    elements_with_aicss[CHOOSE n \in 1..Len(elements_with_aicss) :
                            elements_with_aicss[n].element = i].class_name

\* C8: once the classes and the style sheet are written, every element
\* with a non-empty description has a generated class and the style sheet
\* has a rule for that class.
C8_EveryDescriptionYieldsRule ==
    pc = "cleanup" =>
        \A i \in 1..Len(html) :
            (Described(html[i]) \/ Styled(i)) =>
                /\ Styled(i)
                /\ InClasses(html[i].cls, ClassOf(i))
                /\ \E n \in 1..Len(GeneratedRules(html)) :
                       GeneratedRules(html)[n].sel = <<ClassSel(ClassOf(i))>>

(***************************************************************************)
(* C9                                                                      *)
(***************************************************************************)
RECURSIVE Selectors(_)
Selectors(rules) ==
    IF rules = <<>> THEN <<>> ELSE <<Head(rules).sel>> \o Selectors(Tail(rules))

RECURSIVE ClassSelectors(_)
ClassSelectors(elements) ==
    IF elements = <<>> THEN <<>>
    ELSE <<<<ClassSel(Head(elements).class_name)>>>>
         \o ClassSelectors(Tail(elements))

\* C9: the rules of the generated style sheet are in the order in which
\* their elements are met going down the document.
C9_RulesInDocumentOrder ==
    Returned => Selectors(GeneratedRules(html)) = ClassSelectors(elements_with_aicss)

(***************************************************************************)
(* C10                                                                     *)
(***************************************************************************)
HeadStyles(toks) ==
    IF Find(toks, "head") = 0 THEN <<>>
    ELSE StylesIn(toks, Find(toks, "head") + 1, MatchClose(toks, Find(toks, "head")))

CountStyles(toks) ==
    Cardinality({i \in 1..Len(toks) : toks[i].k = "open" /\ toks[i].tag = "style"})

\* C10: assembling the style sheet adds no style node to a head that has
\* one, whatever its type attribute; otherwise the new style node is the
\* first child of the head.
C10_NoSecondStyleNode ==
    [][(pc = "assemble" /\ pc' = "cleanup" /\ styles # <<>>) =>
           IF HeadStyles(html) # <<>>
           THEN CountStyles(html') = CountStyles(html)
           ELSE /\ Find(html', "head") # 0
                /\ html'[Find(html', "head") + 1].k = "open"
                /\ html'[Find(html', "head") + 1].tag = "style"]_vars

(***************************************************************************)
(* C11                                                                     *)
(***************************************************************************)
\* The rules process_ai_tags generates from the aistyle lines of its input
AistyleRules == AllCssParts(html_parser(input), 1)

\* C11: when process_ai_tags has returned, every rule generated from an
\* aistyle line is in a style node of the returned document, with or
\* without a head element in the input, and no aistyle element is left.
C11_AistyleRulesReturned ==
    (entry = "tags" /\ pc = "done" /\ ret = "ok")
    => /\ ~HasTag(html, "aistyle")
       /\ \A n \in 1..Len(AistyleRules) :
              \E m \in 1..Len(RulesOf(html)) : RulesOf(html)[m] = AistyleRules[n]

(***************************************************************************)
(* C12                                                                     *)
(***************************************************************************)
\* The input has an aistyle line whose selector is exactly 'body' and
\* whose description holds the body keywords, in a document with a head.
HasBodyLine ==
    /\ Find(input, "head") # 0
    /\ \E i \in 1..Len(input) : \E n \in 1..Len(input[i].txt) :
           /\ input[i].txt[n].d = "line"
           /\ input[i].txt[n].v = "body"
           /\ input[i].txt[n].q \in BodyKeyworded

\* C12: after the aistyle block, a line whose selector is exactly 'body'
\* has given a body rule built by the body-specific keyword rules, and no
\* rule of the generic resolver.
C12_BodyLineUsesBodyRules ==
    (pc = "recurse" /\ passes = 0 /\ HasBodyLine)
    => /\ \E m \in 1..Len(RulesOf(html)) :
              /\ RulesOf(html)[m].by = "body"
              /\ RulesOf(html)[m].sel = <<TypeSel("body")>>
       /\ \A m \in 1..Len(RulesOf(html)) : RulesOf(html)[m].by # "resolver"

(***************************************************************************)
(* C13                                                                     *)
(***************************************************************************)
MarkerClass == ClassName(<<"ai-generated">>)

\* C13: when the expansion and the regular-expression pass are over for a
\* document that is one self-closing custom tag, the document is one
\* standard element that has the marker class 'ai-generated' and the id
\* and the classes of the original tag.
C13_SelfClosingKeepsAttributes ==
    (/\ entry = "tags" /\ pc = "sanitize"
     /\ Len(input) = 1 /\ input[1].k = "void" /\ IsAi(input[1].tag))
    => /\ Len(html) = 2
       /\ html[1].k = "open" /\ ~IsAi(html[1].tag)
       /\ InClasses(html[1].cls, MarkerClass)
       /\ html[1].id = input[1].id
       /\ \A n \in 1..Len(input[1].cls) : InClasses(html[1].cls, input[1].cls[n])

(***************************************************************************)
(* C14                                                                     *)
(***************************************************************************)
\* The elements of the input are all in the returned document
ElementsKept ==
    \A i \in 1..Len(input) :
        input[i].k \in {"open", "void"}
        => \E j \in 1..Len(html) :
               html[j].k = input[i].k /\ html[j].tag = input[i].tag

\* C14: when process_ai_tags has returned, an element of a document
\* without custom elements is still there, also when it has no text and
\* is inside an element without text (the outer element is not emptied
\* for a placeholder); and the element written for one self-closing custom
\* tag has no text.
C14_PlaceholderOnlyInEmptyLeaves ==
    (entry = "tags" /\ pc = "done" /\ ret = "ok")
    => /\ (\A i \in 1..Len(input) : ~IsAi(input[i].tag)) => ElementsKept
       /\ (Len(input) = 1 /\ input[1].k = "void" /\ IsAi(input[1].tag))
          => NoText(html, 1, Len(html))

(***************************************************************************)
(* C15                                                                     *)
(***************************************************************************)
\* The input is one standard element whose text is the leaked fragment
\* content "V" with style "S", S a description the resolver resolves.
LeakedFragment ==
    /\ Len(input) = 3
    /\ input[1].k = "open" /\ ~IsAi(input[1].tag)
    /\ input[2].k = "text" /\ Len(input[2].txt) = 2
    /\ input[2].txt[1].d = "content"
    /\ input[2].txt[2].d = "wstyle"
    /\ Resolves(input[2].txt[2].v) = "css"

\* C15: process_html_file returns, for a leaked fragment content "V" with
\* style "S" in a standard element, that element with the text V, with a
\* generated class, and a style sheet with a generated rule.
C15_LeakedFragmentRepaired ==
    (Returned /\ LeakedFragment)
    => LET i == Find(html, input[1].tag)
       IN /\ i # 0
          /\ html[i + 1].k = "text"
          /\ html[i + 1].txt = input[2].txt[1].in
          /\ html[i].cls # <<>>
          /\ GeneratedRules(html) # <<>>

(***************************************************************************)
(* extract_directives over the characters of a text                        *)
(***************************************************************************)
\* A text is a sequence of symbols: a directive keyword, or one character.
DirectiveKeys == {"content", "style", "text", "class", "href", "src", "alt",
                  "type", "placeholder"}
Dq == "\""
Sq == "'"
Bs == "\\"
Sp == " "
WordChars == {"a", "b"}

\* The place of the first symbol from i on that is no space: \s+ or lstrip
RECURSIVE SkipSpaces(_, _)
SkipSpaces(text, i) ==
    IF i <= Len(text) /\ text[i] = Sp THEN SkipSpaces(text, i + 1) ELSE i

\* ((?:[^"\\]|\\.)*)" from i: the place of the closing quote (0: no match)
RECURSIVE EscapedRun(_, _, _)
EscapedRun(text, i, q) ==
    IF i > Len(text) THEN 0
    ELSE IF text[i] = q THEN i
    ELSE IF text[i] = Bs
         THEN IF i + 1 > Len(text) THEN 0 ELSE EscapedRun(text, i + 2, q)
    ELSE EscapedRun(text, i + 1, q)

\* ([^"]+)" from i: the place of the closing quote (0: no match)
RECURSIVE PlainRun(_, _, _)
PlainRun(text, i, q) ==
    IF i > Len(text) THEN 0
    ELSE IF text[i] = q THEN i
    ELSE PlainRun(text, i + 1, q)

\* ([a-zA-Z0-9_-]+) from i: the place after the run
RECURSIVE WordRun(_, _)
WordRun(text, i) ==
    IF i <= Len(text) /\ text[i] \in WordChars THEN WordRun(text, i + 1) ELSE i

NoMatch == [has |-> FALSE, value |-> <<>>]

\* The pattern of a key tried at place p of the text.
MatchAt(text, p, key) ==
    LET s == SkipSpaces(text, p + 1)
    IN IF text[p] # key \/ s = p + 1 \/ s > Len(text) THEN NoMatch
       ELSE IF key = "class" /\ text[s] \in WordChars
            THEN [has |-> TRUE, value |-> SubSeq(text, s, WordRun(text, s) - 1)]
       ELSE IF text[s] \in {Dq, Sq}
            THEN LET j == IF key = "content"
                          THEN EscapedRun(text, s + 1, text[s])
                          ELSE PlainRun(text, s + 1, text[s])
                 IN IF j = 0 \/ (key # "content" /\ j = s + 1) THEN NoMatch
                    ELSE [has |-> TRUE, value |-> SubSeq(text, s + 1, j - 1)]
       ELSE NoMatch

\* re.search(pattern, text): the leftmost place where the pattern matches
RECURSIVE Search(_, _, _)
Search(text, p, key) ==
    IF p > Len(text) THEN NoMatch
    ELSE IF MatchAt(text, p, key).has THEN MatchAt(text, p, key)
    ELSE Search(text, p + 1, key)

\* The test that a quote ends the content: what follows it, spaces
\* skipped, is a style directive, nothing, or no letter or digit.
EndsContent(text, j) ==
    LET r == SkipSpaces(text, j)
    IN r > Len(text) \/ text[r] = "style" \/ text[r] \in {Dq, Sq, Bs}

\* The character loop of the nested-quote handler, from place i.
RECURSIVE QuoteScan(_, _, _, _, _)
QuoteScan(text, i, q, content_text, in_escape) ==
    IF i > Len(text) THEN NoMatch
    ELSE IF text[i] = Bs
         THEN QuoteScan(text, i + 1, q, Append(content_text, Bs), ~in_escape)
    ELSE IF ~in_escape /\ text[i] = q /\ EndsContent(text, i + 1)
         THEN [has |-> TRUE, value |-> content_text]
    ELSE QuoteScan(text, i + 1, q, Append(content_text, text[i]), FALSE)

\* The place after the opening quote of the first content\s+" (0: none)
RECURSIVE ContentStart(_, _, _)
ContentStart(text, p, q) ==
    IF p > Len(text) THEN 0
    ELSE LET s == SkipSpaces(text, p + 1)
         IN IF text[p] = "content" /\ s > p + 1 /\ s <= Len(text) /\ text[s] = q
            THEN s + 1
            ELSE ContentStart(text, p + 1, q)

\* The handler for content with nested quotes, tried when no content
\* pattern matched: double quotes first, then single quotes.
NestedContent(text) ==
    LET d == ContentStart(text, 1, Dq)
        s == ContentStart(text, 1, Sq)
        fromD == IF d = 0 THEN NoMatch ELSE QuoteScan(text, d, Dq, <<>>, FALSE)
        fromS == IF s = 0 THEN NoMatch ELSE QuoteScan(text, s, Sq, <<>>, FALSE)
    IN IF fromD.has THEN fromD ELSE fromS

\* extract_directives(text): for each key, whether it is in the returned
\* dictionary and its value.
extract_directives_chars(text) ==
    [key \in DirectiveKeys |->
        IF key = "content" /\ ~Search(text, 1, key).has
        THEN NestedContent(text)
        ELSE Search(text, 1, key)]

(***************************************************************************)
(* The functions called on their own                                       *)
(***************************************************************************)
\* Longest directive value
MaxValueLen == 3

ValueChars == {"a", Bs, Dq}

Values == UNION { [1..n -> ValueChars] : n \in 0..MaxValueLen }

\* key "v"
Quoted(key, v) == <<key, Sp, Dq>> \o v \o <<Dq>>

DirectiveTexts == { Quoted(key, v) : key \in DirectiveKeys, v \in Values }

\* Arguments of _generate_semantic_class_name: two calls that differ in
\* the id at most
NameIds == {UserId("e1"), UserId("e2"), UserId("item-92"), UserId("item-151")}

NameCalls ==
    { <<[element_id |-> a, element_tag |-> t, description |-> d],
        [element_id |-> b, element_tag |-> t, description |-> d]>> :
      a \in NameIds, b \in NameIds, t \in {"div", "button"},
      d \in DOMAIN Keywords }

\* Documents for extract_style_descriptions: those of the file, and the
\* same with 'aicss-2' as the id of the first element
DescriptionDocs ==
    StyledBodies
    \cup { [body EXCEPT ![1].id = OrdinalId(2)] : body \in StyledBodies }

\* Texts for the loop of process_html_file over ai_tag_pattern: serialised
\* documents with custom elements, one in another
LoopTexts ==
    { Chain(n) : n \in 1..MaxNest } \cup { Mixed(n) : n \in 1..MaxNest }
    \cup { Single(tag, body) : tag \in {"aidiv", "aip"}, body \in Bodies }
    \cup { Single("p", <<W("hello")>>) }

Functions == {"extract_directives", "_generate_semantic_class_name",
              "extract_style_descriptions", "ai_tag_pattern"}

\* One function, the arguments of its calls in input, the values returned
\* so far in ret.
InitFn ==
    /\ EngineNotCalled
    /\ NoOutputPath
    /\ NotWatching
    /\ NotProcessing
    /\ entry \in Functions
    /\ input \in IF entry = "extract_directives"
                 THEN { <<text>> : text \in DirectiveTexts }
                 ELSE IF entry = "_generate_semantic_class_name" THEN NameCalls
                 ELSE IF entry = "ai_tag_pattern"
                 THEN { <<text>> : text \in LoopTexts }
                 ELSE { <<doc>> : doc \in DescriptionDocs }
    /\ pc = "call"
    /\ ret = <<>>
    /\ html = IF entry = "ai_tag_pattern" THEN input[1] ELSE <<>>
    /\ raises = NoDesc
    /\ depth = 0
    /\ passes = 0
    /\ rewrites = 0
    /\ styles = <<>>
    /\ css_classes = <<>>
    /\ elements_with_aicss = <<>>

Returns(value) ==
    /\ pc = "call"
    /\ ret' = Append(ret, value)
    /\ pc' = IF Len(ret') = Len(input) THEN "returned" ELSE "call"
    /\ UNCHANGED <<entry, input, html, raises, depth, passes, rewrites, styles,
                   css_classes, elements_with_aicss>>

CallExtractDirectives ==
    /\ UNCHANGED rest_of_html_processor
    /\ entry = "extract_directives"
    /\ pc = "call"
    /\ Returns(extract_directives_chars(input[Len(ret) + 1]))

CallGenerateSemanticClassName ==
    /\ UNCHANGED rest_of_html_processor
    /\ entry = "_generate_semantic_class_name"
    /\ pc = "call"
    /\ LET a == input[Len(ret) + 1]
       IN Returns(_generate_semantic_class_name(a.element_id, a.element_tag,
                                                a.description))

CallExtractStyleDescriptions ==
    /\ UNCHANGED rest_of_html_processor
    /\ entry = "extract_style_descriptions"
    /\ pc = "call"
    /\ Returns(extract_style_descriptions(input[Len(ret) + 1]))

\* One turn of the loop while processed_ai_html != last_content: the
\* substitution over html (processed_ai_html); the loop is left when the
\* substitution changed nothing.  passes counts the turns.
SubstituteAiTags ==
    /\ UNCHANGED rest_of_html_processor
    /\ entry = "ai_tag_pattern"
    /\ pc = "call"
    /\ html' = SubAiPairs(html, TRUE)
    /\ passes' = passes + 1
    /\ IF html' = html
       THEN pc' = "returned" /\ ret' = <<html>>
       ELSE pc' = "call" /\ ret' = ret
    /\ UNCHANGED <<entry, input, raises, depth, rewrites, styles,
                   css_classes, elements_with_aicss>>

NextFn ==
    \/ CallExtractDirectives
    \/ CallGenerateSemanticClassName
    \/ CallExtractStyleDescriptions
    \/ SubstituteAiTags

SpecFn == InitFn /\ [][NextFn]_vars

(***************************************************************************)
(* C16                                                                     *)
(***************************************************************************)
\* No double quote of the value is unescaped: each one follows a backslash
\* that is not itself escaped.
RECURSIVE NoUnescapedQuote(_, _, _)
NoUnescapedQuote(v, i, escaped) ==
    IF i > Len(v) THEN TRUE
    ELSE IF v[i] = Bs THEN NoUnescapedQuote(v, i + 1, ~escaped)
    ELSE IF v[i] = Dq THEN escaped /\ NoUnescapedQuote(v, i + 1, FALSE)
    ELSE NoUnescapedQuote(v, i + 1, FALSE)

\* The key and the value of the text key "v"
KeyOf(text) == text[1]
ValueOf(text) == SubSeq(text, 4, Len(text) - 1)

\* C16: for each of the nine keys and each value v without an unescaped
\* double quote, the empty value and values with escaped quotes included,
\* extract_directives(key "v") has the key, with the value v.
C16_DirectiveRoundTrip ==
    (/\ entry = "extract_directives" /\ pc = "returned"
     /\ NoUnescapedQuote(ValueOf(input[1]), 1, FALSE))
    => /\ ret[1][KeyOf(input[1])].has
       /\ ret[1][KeyOf(input[1])].value = ValueOf(input[1])

(***************************************************************************)
(* C17                                                                     *)
(***************************************************************************)
\* The description holds none of the keywords
NoKeyword(description) ==
    Keywords[description] = [tone |-> "", size |-> "", shape |-> ""]

\* C17: two calls of _generate_semantic_class_name with the same arguments
\* return the same name, and two calls that differ in the id only, with a
\* description that holds no keyword, return two different names.
C17_ClassNameDeterminism ==
    (entry = "_generate_semantic_class_name" /\ pc = "returned")
    => /\ input[1] = input[2] => ret[1] = ret[2]
       /\ (/\ input[1].element_id # input[2].element_id
           /\ NoKeyword(input[1].description))
          => ret[1] # ret[2]

(***************************************************************************)
(* C18                                                                     *)
(***************************************************************************)
\* <aibutton>text "Go" with style "primary, rounded"</aibutton>
Scenario1 ==
    Single("aibutton", <<Dt("dq", <<W("Go")>>), Dws("dq", "primary, rounded")>>)

\* C18: for <aibutton>text "Go" with style "primary, rounded"</aibutton>
\* process_html_file returns a button with the text Go and the class
\* button-primary-rounded (tag, tone suffix, shape suffix, no digest), and
\* a style sheet with a rule for that class.
C18_ButtonPrimaryRounded ==
    (Returned /\ input = Scenario1 /\ raises = NoDesc)
    => LET i == Find(html, "button")
           name == ClassName(<<"button", "primary", "rounded">>)
       IN /\ i # 0
          /\ html[i + 1].k = "text" /\ html[i + 1].txt = <<W("Go")>>
          /\ html[i].cls = <<name>>
          /\ \E n \in 1..Len(GeneratedRules(html)) :
                 GeneratedRules(html)[n].sel = <<ClassSel(name)>>

(***************************************************************************)
(* C19                                                                     *)
(***************************************************************************)
\* The elements of the input whose description resolves to css
ResolvedElements ==
    { i \in 1..Len(input) :
        Described(input[i]) /\ Resolves(input[i].aicss) = "css" }

\* C19: the styles that process_html_file returns for a document without
\* custom elements have exactly one entry for each element whose
\* description resolves to css, with or without an id of its own.
C19_OneStyleEntryPerElement ==
    (Returned /\ ~HasAiElement(input))
    => Len(styles) = Cardinality(ResolvedElements)

(***************************************************************************)
(* C20                                                                     *)
(***************************************************************************)
\* The places of the elements with a description, in document order
RECURSIVE DescribedFrom(_, _)
DescribedFrom(toks, i) ==
    IF i > Len(toks) THEN <<>>
    ELSE (IF Described(toks[i]) THEN <<i>> ELSE <<>>) \o DescribedFrom(toks, i + 1)

\* The ids that the elements of the document have are pairwise distinct
OwnIdsDistinct(toks) ==
    \A i, j \in 1..Len(toks) :
        (i # j /\ toks[i].id # NoId /\ toks[j].id # NoId) => toks[i].id # toks[j].id

\* C20: extract_style_descriptions returns one tuple for each element with
\* a description, in document order: the element's id if it has one, else
\* a generated id; the description; the selector '#id', after
\* 'tag.classes, ' when the element has classes; and the ids of the tuples
\* are pairwise distinct when the ids of the document are.
C20_OneTuplePerDescribedElement ==
    (entry = "extract_style_descriptions" /\ pc = "returned")
    => LET doc == input[1]
           at == DescribedFrom(doc, 1)
           out == ret[1]
       IN /\ Len(out) = Len(at)
          /\ \A n \in 1..Len(at) :
                 LET e == doc[at[n]]
                     t == out[n]
                 IN /\ t.description = e.aicss
                    /\ t.element_id # NoId
                    /\ e.id # NoId => t.element_id = e.id
                    /\ t.selector = IF e.cls = <<>>
                                    THEN <<IdSel(t.element_id)>>
                                    ELSE <<TagClassSel(e.tag, e.cls),
                                           IdSel(t.element_id)>>
          /\ OwnIdsDistinct(doc)
             => \A m, n \in 1..Len(out) :
                    m # n => out[m].element_id # out[n].element_id

(***************************************************************************)
(* C21                                                                     *)
(***************************************************************************)
\* C21: when either entry point has returned a document, every comment of
\* the input is a comment node of it with what the input's comment held,
\* also when that has quotes or the word 'content '.
C21_CommentsPreserved ==
    (pc = "done" /\ ret = "ok")
    => \A i \in 1..Len(input) :
           input[i].k = "comment"
           => \E j \in 1..Len(html) :
                  html[j].k = "comment" /\ html[j].txt = input[i].txt

(***************************************************************************)
(* engine.py: load_models and process_description, called by threads       *)
(*                                                                         *)
(* A phrase is a word and a number ('width 10', 'rounded 8').  What the    *)
(* embedding comparison of _process_phrase adds for a phrase is a function *)
(* of the phrase and of the index, written before the properties of the    *)
(* two patterns for dimensions; for the phrases here it is nothing.  The   *)
(* loading can fail where it reads files: the download, the sentence       *)
(* transformer, the classifier.                                            *)
(***************************************************************************)
Threads == {"t1", "t2"}

Phrase(word, digits) == [word |-> word, digits |-> digits]

\* description.split(","), for the descriptions the threads pass
Descriptions ==
    { <<Phrase("width", "10"), Phrase("width", "20")>>,
      <<Phrase("width", "10"), Phrase("height", "20")>>,
      <<Phrase("rounded", "8")>>,
      <<Phrase("rounded", "8"), Phrase("width", "10")>> }

Calls ==
    { [f |-> "load_models", description |-> <<>>] }
    \cup { [f |-> "process_description", description |-> d] :
             d \in Descriptions }

\* The keys of _models["property_embeddings"], in the order the loop of
\* load_models writes them: a property, then its values.
PropertyKeys == <<"width", "width_auto", "height", "height_auto">>

Nothing ==
    [embedder |-> FALSE, property_classifier |-> FALSE,
     has_property_embeddings |-> FALSE, property_embeddings |-> {}]

\* _models has the embedder, the classifier and every embedding
Populated(models) ==
    /\ models.embedder
    /\ models.property_classifier
    /\ models.has_property_embeddings
    /\ models.property_embeddings =
           { PropertyKeys[n] : n \in 1..Len(PropertyKeys) }

Px(digits) == [digits |-> digits, unit |-> "px"]

\* STYLE_PATTERNS, for the pattern names the phrases have
STYLE_PATTERNS(phrase) ==
    IF phrase.word = "rounded"
    THEN <<[key |-> "border-radius",
            value |-> [digits |-> "0.25", unit |-> "rem"]]>>
    ELSE <<>>

\* properties.update(items)
RECURSIVE Update(_, _)
Update(dict, items) ==
    IF items = <<>> THEN dict
    ELSE Update(Put(dict, items[1].key, items[1].value), Tail(items))

\* The loop over the phrases that looks the patterns up
RECURSIVE FastLookup(_, _)
FastLookup(dict, phrases) ==
    IF phrases = <<>> THEN dict
    ELSE FastLookup(Update(dict, STYLE_PATTERNS(phrases[1])), Tail(phrases))

\* _process_phrase raises a KeyError when _models lacks what it reads
PhraseRaises(models) ==
    ~models.embedder \/ ~models.has_property_embeddings

\* _process_phrase(phrase), when it does not raise
_process_phrase(phrase) ==
    IF phrase.word \in {"width", "height"}
    THEN <<[key |-> phrase.word, value |-> Px(phrase.digits)]>>
    ELSE IF phrase.word = "rounded"
    THEN <<[key |-> "border-radius", value |-> Px(phrase.digits)]>>
    ELSE <<>>

NotReturned == [k |-> "none"]
Bool(b) == [k |-> "bool", v |-> b]
Dict(d) == [k |-> "dict", v |-> d]
Raised == [k |-> "raises"]

InitEngine ==
    /\ ProcessorNotCalled
    /\ NoOutputPath
    /\ NotWatching
    /\ NotProcessing
    /\ _models = Nothing
    /\ _initialized = FALSE
    /\ _initialization_lock = Free
    /\ _model_lock = Free
    /\ downloaded \in BOOLEAN
    /\ call \in [Threads -> Calls]
    /\ where = [t \in Threads |-> call[t].f]
    /\ properties = [t \in Threads |-> <<>>]
    /\ futures = [t \in Threads |-> {}]
    /\ returned = [t \in Threads |-> NotReturned]

\* load_models or initialize_engine returns b to its caller:
\* process_description does not look at what initialize_engine returned.
Return(t, b) ==
    IF call[t].f = "load_models"
    THEN /\ where' = [where EXCEPT ![t] = "returned"]
         /\ returned' = [returned EXCEPT ![t] = Bool(b)]
    ELSE /\ where' = [where EXCEPT ![t] = "patterns"]
         /\ UNCHANGED returned

\* if not _initialized: initialize_engine()
CheckInitialized(t) ==
    /\ UNCHANGED rest_of_engine
    /\ where[t] = "process_description"
    /\ where' = [where EXCEPT ![t] = IF _initialized THEN "patterns"
                                     ELSE "initialize_engine"]
    /\ UNCHANGED <<_models, _initialized, _initialization_lock, _model_lock,
                   downloaded, call, properties, futures, returned>>

\* initialize_engine: downloads when the files are missing, outside any
\* lock, and returns False when that fails
InitializeEngine(t) ==
    /\ UNCHANGED rest_of_engine
    /\ where[t] = "initialize_engine"
    /\ \/ /\ downloaded' = TRUE
          /\ where' = [where EXCEPT ![t] = "load_models"]
          /\ UNCHANGED returned
       \/ /\ ~downloaded
          /\ UNCHANGED downloaded
          /\ Return(t, FALSE)
    /\ UNCHANGED <<_models, _initialized, _initialization_lock, _model_lock,
                   call, properties, futures>>

\* load_models: if _initialized: return True
LoadModels(t) ==
    /\ UNCHANGED rest_of_engine
    /\ where[t] = "load_models"
    /\ IF _initialized THEN Return(t, TRUE)
       ELSE where' = [where EXCEPT ![t] = "acquire"] /\ UNCHANGED returned
    /\ UNCHANGED <<_models, _initialized, _initialization_lock, _model_lock,
                   downloaded, call, properties, futures>>

\* with _initialization_lock:
AcquireInitializationLock(t) ==
    /\ UNCHANGED rest_of_engine
    /\ where[t] = "acquire"
    /\ _initialization_lock = Free
    /\ _initialization_lock' = t
    /\ where' = [where EXCEPT ![t] = "recheck"]
    /\ UNCHANGED <<_models, _initialized, _model_lock, downloaded, call,
                   properties, futures, returned>>

\* The test that is repeated under the lock reads the flag again
NotYet == FALSE
AlreadyLoaded == _initialized

\* if _initialized: return True (under the lock)
Recheck(t) ==
    /\ UNCHANGED rest_of_engine
    /\ where[t] = "recheck"
    /\ IF AlreadyLoaded
       THEN _initialization_lock' = Free /\ Return(t, TRUE)
       ELSE /\ where' = [where EXCEPT ![t] = "download"]
            /\ UNCHANGED <<_initialization_lock, returned>>
    /\ UNCHANGED <<_models, _initialized, _model_lock, downloaded, call,
                   properties, futures>>

\* if not models_are_downloaded(): download_models, return False when it
\* fails
Download(t) ==
    /\ UNCHANGED rest_of_engine
    /\ where[t] = "download"
    /\ \/ /\ downloaded' = TRUE
          /\ where' = [where EXCEPT ![t] = "embedder"]
          /\ UNCHANGED <<_initialization_lock, returned>>
       \/ /\ ~downloaded
          /\ UNCHANGED downloaded
          /\ _initialization_lock' = Free
          /\ Return(t, FALSE)
    /\ UNCHANGED <<_models, _initialized, _model_lock, call, properties,
                   futures>>

\* _models["embedder"] = SentenceTransformer(..), or an exception
LoadEmbedder(t) ==
    /\ UNCHANGED rest_of_engine
    /\ where[t] = "embedder"
    /\ \/ /\ _models' = [_models EXCEPT !.embedder = TRUE]
          /\ where' = [where EXCEPT ![t] = "classifier"]
       \/ /\ UNCHANGED _models
          /\ where' = [where EXCEPT ![t] = "except"]
    /\ UNCHANGED <<_initialized, _initialization_lock, _model_lock,
                   downloaded, call, properties, futures, returned>>

\* _models["property_classifier"] = pipeline(..), or an exception;
\* _models["property_embeddings"] = {}
LoadClassifier(t) ==
    /\ UNCHANGED rest_of_engine
    /\ where[t] = "classifier"
    /\ \/ /\ _models' = [_models EXCEPT !.property_classifier = TRUE,
                                        !.has_property_embeddings = TRUE,
                                        !.property_embeddings = {}]
          /\ where' = [where EXCEPT ![t] = "model_lock"]
       \/ /\ UNCHANGED _models
          /\ where' = [where EXCEPT ![t] = "except"]
    /\ UNCHANGED <<_initialized, _initialization_lock, _model_lock,
                   downloaded, call, properties, futures, returned>>

\* with _model_lock:
AcquireModelLock(t) ==
    /\ UNCHANGED rest_of_engine
    /\ where[t] = "model_lock"
    /\ _model_lock = Free
    /\ _model_lock' = t
    /\ where' = [where EXCEPT ![t] = "encode"]
    /\ UNCHANGED <<_models, _initialized, _initialization_lock, downloaded,
                   call, properties, futures, returned>>

\* The loop that embeds the properties and their values, a key a step;
\* the lock is released after the last
Encode(t) ==
    /\ UNCHANGED rest_of_engine
    /\ where[t] = "encode"
    /\ LET n == Cardinality(_models.property_embeddings)
       IN  IF n < Len(PropertyKeys)
           THEN /\ _models' = [_models EXCEPT !.property_embeddings =
                                   @ \cup {PropertyKeys[n + 1]}]
                /\ UNCHANGED <<_model_lock, where>>
           ELSE /\ _model_lock' = Free
                /\ where' = [where EXCEPT ![t] = "set_initialized"]
                /\ UNCHANGED _models
    /\ UNCHANGED <<_initialized, _initialization_lock, downloaded, call,
                   properties, futures, returned>>

\* _initialized = True
SetInitialized(t) ==
    /\ UNCHANGED rest_of_engine
    /\ where[t] = "set_initialized"
    /\ _initialized' = TRUE
    /\ where' = [where EXCEPT ![t] = "return_true"]
    /\ UNCHANGED <<_models, _initialization_lock, _model_lock, downloaded,
                   call, properties, futures, returned>>

\* return True, which leaves the with block
ReturnTrue(t) ==
    /\ UNCHANGED rest_of_engine
    /\ where[t] = "return_true"
    /\ _initialization_lock' = Free
    /\ Return(t, TRUE)
    /\ UNCHANGED <<_models, _initialized, _model_lock, downloaded, call,
                   properties, futures>>

\* except Exception: return False
LoadFails(t) ==
    /\ UNCHANGED rest_of_engine
    /\ where[t] = "except"
    /\ _initialization_lock' = Free
    /\ Return(t, FALSE)
    /\ UNCHANGED <<_models, _initialized, _model_lock, downloaded, call,
                   properties, futures>>

\* properties = {}, the pattern look-up, and a future for every phrase
SubmitPhrases(t) ==
    /\ UNCHANGED rest_of_engine
    /\ where[t] = "patterns"
    /\ properties' = [properties EXCEPT
                          ![t] = FastLookup(<<>>, call[t].description)]
    /\ futures' = [futures EXCEPT ![t] = 1..Len(call[t].description)]
    /\ where' = [where EXCEPT ![t] = "as_completed"]
    /\ UNCHANGED <<_models, _initialized, _initialization_lock, _model_lock,
                   downloaded, call, returned>>

\* for future in as_completed(futures): the worker of phrase i is the next
\* to finish; properties.update(result), or its exception leaves
\* process_description.  The worker takes _model_lock to read the index.
Completed(t, i) ==
    /\ UNCHANGED rest_of_engine
    /\ where[t] = "as_completed"
    /\ i \in futures[t]
    /\ IF PhraseRaises(_models)
       THEN /\ where' = [where EXCEPT ![t] = "returned"]
            /\ returned' = [returned EXCEPT ![t] = Raised]
            /\ UNCHANGED <<properties, futures>>
       ELSE /\ _model_lock = Free
            /\ properties' = [properties EXCEPT ![t] =
                   Update(@, _process_phrase(call[t].description[i]))]
            /\ futures' = [futures EXCEPT ![t] = @ \ {i}]
            /\ UNCHANGED <<where, returned>>
    /\ UNCHANGED <<_models, _initialized, _initialization_lock, _model_lock,
                   downloaded, call>>

\* return properties
ReturnProperties(t) ==
    /\ UNCHANGED rest_of_engine
    /\ where[t] = "as_completed"
    /\ futures[t] = {}
    /\ returned' = [returned EXCEPT ![t] = Dict(properties[t])]
    /\ where' = [where EXCEPT ![t] = "returned"]
    /\ UNCHANGED <<_models, _initialized, _initialization_lock, _model_lock,
                   downloaded, call, properties, futures>>

NextEngine ==
    \/ \E t \in Threads : CheckInitialized(t)
    \/ \E t \in Threads : InitializeEngine(t)
    \/ \E t \in Threads : LoadModels(t)
    \/ \E t \in Threads : AcquireInitializationLock(t)
    \/ \E t \in Threads : Recheck(t)
    \/ \E t \in Threads : Download(t)
    \/ \E t \in Threads : LoadEmbedder(t)
    \/ \E t \in Threads : LoadClassifier(t)
    \/ \E t \in Threads : AcquireModelLock(t)
    \/ \E t \in Threads : Encode(t)
    \/ \E t \in Threads : SetInitialized(t)
    \/ \E t \in Threads : ReturnTrue(t)
    \/ \E t \in Threads : LoadFails(t)
    \/ \E t \in Threads : SubmitPhrases(t)
    \/ \E t \in Threads : \E i \in futures[t] : Completed(t, i)
    \/ \E t \in Threads : ReturnProperties(t)

SpecEngine == InitEngine /\ [][NextEngine]_vars

\* C22: two calls of process_description with one description that both
\* returned a property map returned the same map: the same properties with
\* the same values in the same order, whichever worker finished first.
C22_ProcessDescriptionPure ==
    \A t \in Threads : \A u \in Threads :
        ( /\ returned[t].k = "dict"
          /\ returned[u].k = "dict"
          /\ call[t] = call[u] )
        => returned[t].v = returned[u].v

\* A step in which thread t ends a load without success: the except branch
\* of load_models, or its download that failed
FailedLoad(t) ==
    \/ where[t] = "except" /\ where'[t] # "except"
    \/ where[t] = "download" /\ where'[t] \notin {"download", "embedder"}

\* C23: under every interleaving of threads that call load_models, directly
\* or through process_description, the loading body sets _initialized only
\* when it was False (so it runs to success once at most), whenever
\* _initialized is True _models has the embedder, the classifier and every
\* embedding, and a load that fails leaves _initialized False.
C23_LoadedOnce ==
    [][ /\ \A t \in Threads :
               (where[t] = "set_initialized" /\ where'[t] = "return_true")
               => ~_initialized
        /\ _initialized' => Populated(_models')
        /\ \A t \in Threads : FailedLoad(t) => ~_initialized' ]_vars

\* A thread waits at the test under the lock after another thread's load
\* has succeeded
C23_SecondThreadSeesLoaded ==
    \E t \in Threads : \E u \in Threads :
        /\ where[t] = "recheck"
        /\ _initialized
        /\ Populated(_models)
        /\ call[u].f = "load_models"
        /\ returned[u] = Bool(TRUE)

(***************************************************************************)
(* C24                                                                     *)
(***************************************************************************)
\* C24: process_html_recursively makes max_depth parse-and-rewrite passes
\* at most and is never left without a next step; it goes on to another
\* pass only after a pass that rewrote an element; and on a document without
\* an element whose name starts with 'ai' it has made exactly one pass and
\* replaced nothing when it returns.
C24_RecursionBounded ==
    /\ passes <= max_depth
    /\ pc = "recurse" => depth < max_depth
    /\ (pc = "recurse" /\ passes > 0) => rewrites > 0
    /\ (pc = "regex" /\ ~HasAiElement(input))
       => passes = 1 /\ rewrites = 0 /\ html = html_parser(html)

\* The recursion has returned after max_depth passes, the last of which
\* still rewrote an element
C24_StoppedAtMaxDepth ==
    pc = "regex" /\ passes = max_depth /\ rewrites > 0

(***************************************************************************)
(* C25                                                                     *)
(***************************************************************************)
\* The document has the word in one of its text nodes
HasWord(toks, word) ==
    \E j \in 1..Len(toks) :
        /\ toks[j].k = "text"
        /\ \E m \in 1..Len(toks[j].txt) : toks[j].txt[m] = word

\* C25: when custom tags are nested so that each is the only child of the
\* one around it and the innermost has a text directive, as in
\* <aidiv><aip>text "leaf"</aip></aidiv>, the document that is returned
\* holds the value of that directive.
C25_NestedDirectiveKept ==
    ( /\ pc = "done" /\ ret = "ok"
      /\ \E n \in 2..MaxNest : input = Chain(n) )
    => HasWord(html, W("leaf"))

(***************************************************************************)
(* C26                                                                     *)
(***************************************************************************)
\* C26: in the document process_html_file returns, every id that an
\* ordinary element of the input had is the id of an element, whatever the
\* id, one that starts with 'aicss-' included, and every id that starts
\* with 'aicss-' was in the input.
C26_OnlyGeneratedIdsRemoved ==
    Returned
    => /\ \A i \in 1..Len(input) :
              (input[i].id # NoId /\ ~IsAi(input[i].tag))
              => \E j \in 1..Len(html) :
                     html[j].id = input[i].id /\ html[j].tag = input[i].tag
       /\ \A j \in 1..Len(html) :
              html[j].id.p = "aicss-"
              => \E i \in 1..Len(input) : input[i].id = html[j].id

(***************************************************************************)
(* C27                                                                     *)
(***************************************************************************)
\* The end tags of custom elements in a text
AiCloses(toks) ==
    Cardinality({ i \in 1..Len(toks) :
                      toks[i].k = "close" /\ IsAi(toks[i].tag) })

\* The text has a match of <ai[^>]*>.*?</ai[^>]*>
HasAiMatch(toks) ==
    \E i \in 1..Len(toks) : \E j \in (i + 1)..Len(toks) :
        /\ toks[i].k = "open" /\ IsAi(toks[i].tag)
        /\ toks[j].k = "close" /\ IsAi(toks[j].tag)

\* C27: the loop of process_html_file over ai_tag_pattern ends for every
\* text, after one turn more at most than the text has end tags of custom
\* elements, and the text it leaves has no match of the pattern.
C27_RegexLoopEnds ==
    entry = "ai_tag_pattern"
    => /\ passes <= AiCloses(input[1]) + 1
       /\ pc = "call" => (passes > 0 => HasAiMatch(input[1]))
       /\ pc = "returned" => ~HasAiMatch(html) /\ ret = <<html>>

\* The loop has ended on a text with custom elements one in another, after
\* more than one turn that substituted
C27_NestedTextDone ==
    /\ entry = "ai_tag_pattern"
    /\ pc = "returned"
    /\ passes > 2
    /\ HasAiMatch(input[1])

(***************************************************************************)
(* process_html_file(file_path, output_path), called again on the same     *)
(* file.  A path is the sequence of its components, absolute and           *)
(* normalised; what a file holds is named, and the document made of a      *)
(* file is named by what the file held.                                    *)
(***************************************************************************)
\* Calls of process_html_file in a run
MaxCalls == 2

NoPath == <<>>

Dirs == { <<"site">>, <<"site", "out">>, <<"dist">> }
FilePaths == { dir \o <<name>> : dir \in Dirs, name \in {"a.html", "b.html"} }

Source == [k |-> "html", of |-> "source"]
Old == [k |-> "html", of |-> "old"]
Processed(content) == [k |-> "processed", of |-> content.of]

\* (processed_html, styles) of a file, and ('', {})
Result(content) == [html |-> Processed(content), styles |-> content.of]
Skipped == [html |-> [k |-> "empty", of |-> ""], styles |-> ""]

\* os.path.dirname(path)
Dirname(path) == SubSeq(path, 1, Len(path) - 1)

\* _is_subpath(path, potential_parent): the common path is the parent
_is_subpath(path, potential_parent) ==
    /\ Len(potential_parent) <= Len(path)
    /\ SubSeq(path, 1, Len(potential_parent)) = potential_parent

\* The safety check lets the call go on
NotSkipped(path, out, existing) ==
    ~( /\ out # NoPath
       /\ out \in existing
       /\ \/ path = out
          \/ _is_subpath(path, Dirname(out)) )

InitOutput ==
    /\ ProcessorNotCalled
    /\ EngineNotCalled
    /\ NotWatching
    /\ NotProcessing
    /\ file_path \in FilePaths
    /\ output_path \in FilePaths \cup {NoPath}
    /\ files \in { (file_path :> Source) }
                 \cup (IF output_path # NoPath
                       THEN { (file_path :> Source) @@ (output_path :> Old) }
                       ELSE {})
    /\ running = "idle"
    /\ processed_html = Skipped.html
    /\ results = <<>>

\* The call and its safety check: return "", {} or go on to read the file
SafetyCheck ==
    /\ UNCHANGED rest_of_output
    /\ running = "idle"
    /\ Len(results) < MaxCalls
    /\ IF NotSkipped(file_path, output_path, DOMAIN files)
       THEN running' = "read" /\ UNCHANGED results
       ELSE running' = "idle" /\ results' = Append(results, Skipped)
    /\ UNCHANGED <<file_path, output_path, files, processed_html>>

\* The file is read and processed
ProcessFile ==
    /\ UNCHANGED rest_of_output
    /\ running = "read"
    /\ processed_html' = Processed(files[file_path])
    /\ running' = "write"
    /\ UNCHANGED <<file_path, output_path, files, results>>

\* The document is written when an output path was given, and returned
WriteOutput ==
    /\ UNCHANGED rest_of_output
    /\ running = "write"
    /\ files' = IF output_path # NoPath
                THEN (output_path :> processed_html) @@ files
                ELSE files
    /\ results' = Append(results, [html |-> processed_html,
                                   styles |-> files[file_path].of])
    /\ running' = "idle"
    /\ UNCHANGED <<file_path, output_path, processed_html>>

NextOutput ==
    \/ SafetyCheck
    \/ ProcessFile
    \/ WriteOutput

SpecOutput == InitOutput /\ [][NextOutput]_vars

(***************************************************************************)
(* C28                                                                     *)
(***************************************************************************)
\* C28: when process_html_file(f, o) has written o and is called again
\* with the same f and o, f and o different paths, o in the directory of f
\* or elsewhere, the second call returns what the first returned and o
\* holds the same document; and a call returns ('', {}) without processing
\* only when o is the file f itself.
C28_RerunConsistent ==
    /\ ( /\ Len(results) >= 2
         /\ output_path # NoPath
         /\ output_path # file_path
         /\ results[1] # Skipped )
       => /\ results[2] = results[1]
          /\ files[output_path] = results[1].html
    /\ \A n \in 1..Len(results) :
           results[n] = Skipped => output_path = file_path

(***************************************************************************)
(* cli.py: the watch command.  One observer dispatches the events of the   *)
(* file system to the handler, one at a time, in its own thread; the file  *)
(* system adds events at any moment.  A path is the sequence of the pieces *)
(* of its text, "/" one of them, so that a prefix of the text is a prefix  *)
(* of the sequence.  The files that were modified still exist when their   *)
(* event is handled.                                                       *)
(***************************************************************************)
\* Events the file system gives in a run
MaxEvents == 3

WatchedDirectory == <<"/", "w">>
OutputDirectory == WatchedDirectory \o <<"/", "out">>

Event(src_path, is_directory) ==
    [src_path |-> src_path, is_directory |-> is_directory]

\* /w/a.html, /w/b.htm, /w/out/a.html, /w/outline.html, /w/notes.txt and
\* the directory /w/sub
Events ==
    { Event(WatchedDirectory \o <<"/", "a", ".html">>, FALSE),
      Event(WatchedDirectory \o <<"/", "b", ".htm">>, FALSE),
      Event(OutputDirectory \o <<"/", "a", ".html">>, FALSE),
      Event(WatchedDirectory \o <<"/", "out", "line", ".html">>, FALSE),
      Event(WatchedDirectory \o <<"/", "notes", ".txt">>, FALSE),
      Event(WatchedDirectory \o <<"/", "sub">>, TRUE) }

\* text.startswith(prefix)
startswith(text, prefix) ==
    Len(prefix) <= Len(text) /\ SubSeq(text, 1, Len(prefix)) = prefix

\* src_path.endswith('.html') or src_path.endswith('.htm')
IsHtml(src_path) == src_path[Len(src_path)] \in {".html", ".htm"}

\* The file is in the directory or below it
InDirectory(src_path, directory) == startswith(src_path, directory \o <<"/">>)

\* list(self.pending_files): the files of the set in some order
Listings(files_) ==
    { l \in [1..Cardinality(files_) -> files_] :
          \A m \in DOMAIN l : \A n \in DOMAIN l : l[m] = l[n] => m = n }

InitWatch ==
    /\ ProcessorNotCalled
    /\ EngineNotCalled
    /\ NoOutputPath
    /\ NotProcessing
    /\ event_queue = <<>>
    /\ emitted = 0
    /\ output_dir \in {NoPath, OutputDirectory}
    /\ processing = FALSE
    /\ pending_files = {}
    /\ handler = "idle"
    /\ todo = <<>>
    /\ delivered = {}
    /\ processed_files = {}

\* The file system reports a modification; the observer queues the event
Modified(event) ==
    /\ UNCHANGED rest_of_watch
    /\ emitted < MaxEvents
    /\ event_queue' = Append(event_queue, event)
    /\ emitted' = emitted + 1
    /\ UNCHANGED <<output_dir, processing, pending_files, handler, todo,
                   delivered, processed_files>>

\* The observer calls on_modified with the next event: the tests that
\* return, else the file is added to pending_files and
\* process_pending_files sets the flag and lists the files
on_modified ==
    /\ UNCHANGED rest_of_watch
    /\ handler = "idle"
    /\ event_queue # <<>>
    /\ LET event == Head(event_queue)
       IN /\ event_queue' = Tail(event_queue)
          /\ delivered' = delivered \cup {event}
          /\ IF \/ processing
                \/ event.is_directory
                \/ ~IsHtml(event.src_path)
                \/ /\ output_dir # NoPath
                   /\ startswith(event.src_path, output_dir)
             THEN UNCHANGED <<processing, pending_files, handler, todo>>
             ELSE /\ pending_files' = pending_files \cup {event.src_path}
                  /\ processing' = TRUE
                  /\ todo' \in Listings(pending_files')
                  /\ handler' = "for"
    /\ UNCHANGED <<emitted, output_dir, processed_files>>

\* One turn of the loop of process_pending_files: process_html_file on the
\* file, whose exceptions are caught, and the file leaves pending_files
ProcessPendingFile ==
    /\ UNCHANGED rest_of_watch
    /\ handler = "for"
    /\ todo # <<>>
    /\ processed_files' = processed_files \cup {Head(todo)}
    /\ pending_files' = pending_files \ {Head(todo)}
    /\ todo' = Tail(todo)
    /\ UNCHANGED <<event_queue, emitted, output_dir, processing, handler,
                   delivered>>

\* finally: the flag is cleared, and process_pending_files is called again
\* when files are pending
FinishPending ==
    /\ UNCHANGED rest_of_watch
    /\ handler = "for"
    /\ todo = <<>>
    /\ IF pending_files # {}
       THEN /\ processing' = TRUE
            /\ todo' \in Listings(pending_files)
            /\ handler' = "for"
       ELSE /\ processing' = FALSE
            /\ todo' = <<>>
            /\ handler' = "idle"
    /\ UNCHANGED <<event_queue, emitted, output_dir, pending_files,
                   delivered, processed_files>>

NextWatch ==
    \/ \E event \in Events : Modified(event)
    \/ on_modified
    \/ ProcessPendingFile
    \/ FinishPending

SpecWatch == InitWatch /\ [][NextWatch]_vars

(***************************************************************************)
(* C29                                                                     *)
(***************************************************************************)
\* An event for an .html or .htm file that is not in the output directory
HtmlOutsideOutput(event) ==
    /\ ~event.is_directory
    /\ IsHtml(event.src_path)
    /\ output_dir # NoPath => ~InDirectory(event.src_path, output_dir)

\* C29: whenever no call of process_pending_files is running,
\* pending_files is empty, the flag processing is False, and every event
\* for an .html or .htm file outside the output directory that the handler
\* was given, at whatever moment it arrived, has had its file processed.
C29_EveryEventProcessed ==
    handler = "idle"
    => /\ pending_files = {}
       /\ ~processing
       /\ \A event \in delivered :
              HtmlOutsideOutput(event) => event.src_path \in processed_files

(***************************************************************************)
(* cli.py: the process command on one file, input_path and final_output    *)
(* different paths.  What the first pass writes is named by the number of  *)
(* '<ai...>' openings it leaves in the output file.                        *)
(***************************************************************************)
\* The largest --max-passes of a run
MaxPasses == 3
\* The most openings a pass leaves in the output file
MaxRemaining == 2

\* extract_and_process refuses and returns False: input and output are the
\* same existing file
SameFile(html_path, out_path, exists) ==
    html_path = out_path /\ exists

InitProcess ==
    /\ ProcessorNotCalled
    /\ EngineNotCalled
    /\ NoOutputPath
    /\ NotWatching
    /\ max_passes \in 1..MaxPasses
    /\ force \in BOOLEAN
    /\ is_file \in BOOLEAN
    /\ remaining_tags \in IF is_file THEN 0..MaxRemaining ELSE {0}
    /\ success = FALSE
    /\ pass = 1
    /\ command = "start"
    /\ calls = <<>>
    /\ reported = "none"

\* The tests before the first pass: an output file that exists without
\* --force, and initialize_engine
BeforeFirstPass ==
    /\ UNCHANGED rest_of_process
    /\ command = "start"
    /\ \/ /\ is_file /\ ~force
          /\ reported' = "error"
          /\ command' = "done"
       \/ /\ ~(is_file /\ ~force)
          /\ \/ reported' = "error" /\ command' = "done"
             \/ reported' = reported /\ command' = "first"
    /\ UNCHANGED <<max_passes, force, is_file, remaining_tags, success, pass,
                   calls>>

\* success = extract_and_process(input_path, final_output): it writes the
\* output file and returns True, or returns False
FirstPass ==
    /\ UNCHANGED rest_of_process
    /\ command = "first"
    /\ \/ \E left \in 0..MaxRemaining :
              /\ success' = TRUE
              /\ is_file' = TRUE
              /\ remaining_tags' = left
       \/ /\ success' = FALSE
          /\ UNCHANGED <<is_file, remaining_tags>>
    /\ calls' = Append(calls, success')
    /\ command' = "remaining"
    /\ UNCHANGED <<max_passes, force, pass, reported>>

\* if os.path.isfile(final_output): remaining_tags = re.findall(..);
\* if remaining_tags and max_passes > 1: for i in range(2, max_passes + 1)
LookForRemainingTags ==
    /\ UNCHANGED rest_of_process
    /\ command = "remaining"
    /\ IF is_file /\ remaining_tags > 0 /\ max_passes > 1
       THEN pass' = 2 /\ command' = "for"
       ELSE pass' = pass /\ command' = "report"
    /\ UNCHANGED <<max_passes, force, is_file, remaining_tags, success, calls,
                   reported>>

\* success = extract_and_process(final_output, final_output), the file is
\* read again, and the loop ends when no opening is left or i is max_passes
AdditionalPass ==
    /\ UNCHANGED rest_of_process
    /\ command = "for"
    /\ IF SameFile("final_output", "final_output", is_file)
       THEN success' = FALSE /\ UNCHANGED <<is_file, remaining_tags>>
       ELSE \E left \in 0..MaxRemaining :
                /\ success' = TRUE
                /\ is_file' = TRUE
                /\ remaining_tags' = left
    /\ calls' = Append(calls, success')
    /\ IF remaining_tags' = 0 \/ pass = max_passes
       THEN pass' = pass /\ command' = "report"
       ELSE pass' = pass + 1 /\ command' = "for"
    /\ UNCHANGED <<max_passes, force, reported>>

\* if success: 'Successfully processed ..', else error_exit
Report ==
    /\ UNCHANGED rest_of_process
    /\ command = "report"
    /\ reported' = IF success THEN "success" ELSE "error"
    /\ command' = "done"
    /\ UNCHANGED <<max_passes, force, is_file, remaining_tags, success, pass,
                   calls>>

NextProcess ==
    \/ BeforeFirstPass
    \/ FirstPass
    \/ LookForRemainingTags
    \/ AdditionalPass
    \/ Report

SpecProcess == InitProcess /\ [][NextProcess]_vars

(***************************************************************************)
(* C30                                                                     *)
(***************************************************************************)
\* C30: the process command makes max_passes passes at most, an additional
\* pass being made only while openings of custom tags remain in the output
\* file and processing that file, and when the first pass succeeded the
\* command reports success: an additional pass does not turn the run into
\* an error.
C30_AdditionalPassesKeepSuccess ==
    /\ Len(calls) <= max_passes
    /\ \A n \in 2..Len(calls) : calls[n]
    /\ (command = "done" /\ calls # <<>> /\ calls[1])
       => reported = "success"

=============================================================================
